---- MODULE Spec2Model ----
(***************************************************************************)
(* Model of the staged load-and-merge procedure of the Inside-Airbnb       *)
(* warehouse loader (src/modules/data_loader.py, AirbnbDataLoader).        *)
(*                                                                         *)
(* Text values are sequences of one-character strings, so that trimming,   *)
(* fixed-width substrings and the server-side TRY_CAST are computed        *)
(* character by character.  The database is the pair db (what the open      *)
(* connection sees) / cdb (what is committed): COMMIT copies db to cdb,     *)
(* ROLLBACK and a dropped connection copy cdb to db.                        *)
(*                                                                         *)
(* Of the 15 staged columns the model keeps listing_id and host_name; the  *)
(* other 13 are carried by the code in exactly the way host_name is.       *)
(***************************************************************************)
EXTENDS Integers, Sequences, FiniteSets, TLC

VARIABLES
    pc,                 \* position inside _load_listings_data ("idle" outside)
    file,               \* file_path of the current / last call
    i,                  \* start index of the current batch (1-based)
    j,                  \* index inside the batch during the fallback
    staging_inserted,   \* the counter logged at line 229
    summary,            \* [inserted, updated] of the last MERGE
    db,                 \* tables as seen by the open connection
    cdb,                \* committed tables
    skipped,            \* logs/listings_skipped_rows.csv, one line per entry
    consecutive_errors, \* self.consecutive_errors
    pre,                \* observer: the tables when the promote began
    hist,               \* observer: the last two calls of the loader
    calls,              \* observer: the number of calls so far
    entry,              \* the entry point of the run ("off": no run)
    rpc,                \* position inside load_to_warehouse ("off": no run)
    queue,              \* the files the current for-loop has still to visit
    conns,              \* every connection object created: its state
    conn,               \* the connection load_to_warehouse holds
    rv,                 \* _load_reviews_data: position, file, attempt, its conn,
                        \* and (observers) script executions and outcome
    attempted,          \* observer: the files whose load was called
    finished,           \* observer: calendar/reviews files whose load returned
    views_created,      \* observer: create_views ran to its end
    stats_shown,        \* observer: the statistics were reported
    raised              \* observer: an exception reached line 83

\* the state of a run of load_to_warehouse
runvars == <<entry, rpc, queue, conns, conn, rv, attempted, finished, views_created,
             stats_shown, raised>>

vars == <<pc, file, i, j, staging_inserted, summary, db, cdb, skipped,
          consecutive_errors, pre, hist, calls, runvars>>

-----------------------------------------------------------------------------
(* Bounds *)

\* number of calls of _load_listings_data in one behaviour
MaxCalls == 3
\* rows per executemany batch; stands for batch_size = 500 (line 209)
BatchSize == 2

-----------------------------------------------------------------------------
(* Text *)

\* Python None / pandas NaN / SQL NULL
NULL == <<"<NULL>">>

Digits == {"0", "1", "2", "3", "4", "5", "6", "7", "8", "9"}

DigitVal(c) == CHOOSE n \in 0..9 :
    <<"0", "1", "2", "3", "4", "5", "6", "7", "8", "9">>[n + 1] = c

Min(a, b) == IF a < b THEN a ELSE b

\* s[:n]
Take(s, n) == SubSeq(s, 1, Min(Len(s), n))

RECURSIVE LStrip(_)
LStrip(s) == IF s # <<>> /\ Head(s) = " " THEN LStrip(Tail(s)) ELSE s

RECURSIVE RStrip(_)
RStrip(s) ==
    IF s # <<>> /\ s[Len(s)] = " " THEN RStrip(SubSeq(s, 1, Len(s) - 1)) ELSE s

\* str.strip()
Strip(s) == RStrip(LStrip(s))

\* variant: the value is cut to maxlen before it is trimmed
sanitize_str_CutFirst(val, maxlen) ==
    IF val = NULL THEN NULL
    ELSE LET s == Strip(Take(val, maxlen))
         IN  IF s # <<>> THEN s ELSE NULL

\* sanitize_str(val, maxlen)
sanitize_str(val, maxlen) ==
    IF val = NULL THEN NULL
    ELSE LET s == Strip(val)
         IN  IF s # <<>> THEN Take(s, maxlen) ELSE NULL

\* the default maxlen of sanitize_str, used for id
IdMaxLen == 4000
\* the maxlen passed for host_name
NameMaxLen == 255

\* one tuple appended to rows (lines 178-194)
SanitizeRow(r) ==
    [listing_id |-> sanitize_str(r.listing_id, IdMaxLen),
     host_name  |-> sanitize_str(r.host_name, NameMaxLen)]

SanitizeRows(raw) == [k \in 1..Len(raw) |-> SanitizeRow(raw[k])]

\* ','.join(str(x) if x is not None else '' for x in single)
CommaJoin(row) ==
    (IF row.listing_id = NULL THEN <<>> ELSE row.listing_id)
    \o <<",">> \o
    (IF row.host_name = NULL THEN <<>> ELSE row.host_name)

-----------------------------------------------------------------------------
(* Server-side expressions of move_sql *)

RECURSIVE StripZeros(_)
StripZeros(s) == IF s # <<>> /\ Head(s) = "0" THEN StripZeros(Tail(s)) ELSE s

\* a <= b for digit strings of equal length
LexLeq(a, b) ==
    \/ a = b
    \/ \E k \in 1..Len(a) :
          /\ \A m \in 1..(k - 1) : a[m] = b[m]
          /\ DigitVal(a[k]) < DigitVal(b[k])

\* 2^63 - 1 and 2^63 as digit strings
BigintMax == <<"9","2","2","3","3","7","2","0","3","6","8","5","4","7","7","5","8","0","7">>
BigintMinMag == <<"9","2","2","3","3","7","2","0","3","6","8","5","4","7","7","5","8","0","8">>

FitsBigint(mag, neg) ==
    \/ Len(mag) < Len(BigintMax)
    \/ /\ Len(mag) = Len(BigintMax)
       /\ LexLeq(mag, IF neg THEN BigintMinMag ELSE BigintMax)

\* variant: a cast that accepts any run of digits, whatever its size
TryCastBigint_NoRange(s) ==
    IF s = NULL THEN NULL
    ELSE LET t      == Strip(s)
             signed == t # <<>> /\ Head(t) \in {"+", "-"}
             neg    == t # <<>> /\ Head(t) = "-"
             body   == IF signed THEN Tail(t) ELSE t
             mag    == StripZeros(body)
         IN  IF \E k \in 1..Len(body) : body[k] \notin Digits THEN NULL
             ELSE IF mag = <<>> THEN <<"0">>
             ELSE IF neg THEN <<"-">> \o mag ELSE mag

\* TRY_CAST(s AS BIGINT): the 64-bit value as its canonical decimal text,
\* NULL when s is NULL, is not an optionally signed run of digits, or is
\* out of range.
TryCastBigint(s) ==
    IF s = NULL THEN NULL
    ELSE LET t      == Strip(s)
             signed == t # <<>> /\ Head(t) \in {"+", "-"}
             neg    == t # <<>> /\ Head(t) = "-"
             body   == IF signed THEN Tail(t) ELSE t
             mag    == StripZeros(body)
         IN  IF \E k \in 1..Len(body) : body[k] \notin Digits THEN NULL
             ELSE IF mag = <<>> THEN <<"0">>
             ELSE IF ~FitsBigint(mag, neg) THEN NULL
             ELSE IF neg THEN <<"-">> \o mag ELSE mag

\* SUBSTRING(s, start, len) for start >= 1
Substring(s, start, len) ==
    IF s = NULL THEN NULL
    ELSE IF start > Len(s) THEN <<>>
    ELSE SubSeq(s, start, Min(Len(s), start + len - 1))

\* LEFT(s, n)
Left(s, n) == IF s = NULL THEN NULL ELSE Take(s, n)

-----------------------------------------------------------------------------
(* Input files: the rows pandas hands to the loader *)

T07   == <<"0", "7">>
T42   == <<"4", "2">>
T042  == <<"0", "4", "2">>
T42sp == <<"4", "2", " ">>
\* the 23-digit identifier 12345678901234567890123
BIG23 == <<"1","2","3","4","5","6","7","8","9","0","1","2","3","4","5","6","7","8","9","0","1","2","3">>

RawRow(id, name) == [listing_id |-> id, host_name |-> name]

\* A: a file with an oversized id and a missing id.  B: shares listing 42
\* with A (written 042) and holds a row the staging table refuses (its id
\* is 2^63).  C: repeats listing 42 inside one file (once with a trailing
\* blank).
Files ==
    [A |-> << RawRow(BIG23, <<"x">>), RawRow(T42, <<"a">>), RawRow(NULL, <<"y">>) >>,
     B |-> << RawRow(T07, <<"b">>), RawRow(BigintMinMag, <<"!">>),
              RawRow(T042, <<"b">>) >>,
     C |-> << RawRow(T42, <<"a">>), RawRow(T42sp, <<"b">>) >>]

FileNames == DOMAIN Files

\* rows, as built by lines 176-194 for the current file
Rows == SanitizeRows(Files[file])

\* the INSERT into dim_listings_staging raises for this row (the except
\* clauses of lines 217 and 224); a property of the row's content
StagingRejects(row) == row.host_name = <<"!">>

StagingAccepts(row) == ~StagingRejects(row)

\* batch = rows[i:i+batch_size]
Batch == SubSeq(Rows, i, Min(Len(Rows), i + BatchSize - 1))

-----------------------------------------------------------------------------
(* Tables *)

\* dim_listings_staging, dim_listings, dim_listing_id_map, the files whose
\* rows fact_calendar and fact_reviews hold, the hosts of dim_hosts, the
\* rows of dim_dates, the rows of calendar_debug_staging and the weekly rows
\* insert_calendar adds to fact_calendar
EmptyTables ==
    [staging |-> <<>>, dim |-> <<>>, map |-> <<>>, cal |-> <<>>, rev |-> <<>>,
     hosts |-> {}, dates |-> <<>>, sample |-> <<>>, weeks |-> {}]

IsCastable(row) == TryCastBigint(row.listing_id) # NULL

\* the USING subquery of the MERGE (lines 253-269)
MergeSource(staging) ==
    LET ok == SelectSeq(staging, IsCastable)
    IN  [k \in 1..Len(ok) |->
            [listing_id |-> TryCastBigint(ok[k].listing_id),
             host_name  |-> ok[k].host_name]]

Keys(t) == {t[k].listing_id : k \in 1..Len(t)}

\* variant: dim_listings without its primary key, fed by a plain INSERT
MergeRaises_NoKey(src) == FALSE

\* Two source rows with one key: matched, the MERGE raises error 8672 (same
\* row updated twice); not matched, both are inserted and the primary key
\* of dim_listings raises error 2627.
MergeRaises(src) ==
    \E a, b \in 1..Len(src) : a # b /\ src[a].listing_id = src[b].listing_id

SourceRowFor(src, key) == src[CHOOSE k \in 1..Len(src) : src[k].listing_id = key]

\* variant: every source row is inserted, matched or not
Upsert_InsertOnly(dim, src) == dim \o src

\* WHEN MATCHED THEN UPDATE / WHEN NOT MATCHED BY TARGET THEN INSERT
Upsert(dim, src) ==
    LET NotMatched(s) == s.listing_id \notin Keys(dim)
    IN  [k \in 1..Len(dim) |->
            IF dim[k].listing_id \in Keys(src)
            THEN SourceRowFor(src, dim[k].listing_id)
            ELSE dim[k]]
        \o SelectSeq(src, NotMatched)

\* variant: every source row is counted as inserted, matched or not
MergeSummary_AllInserted(dim, src) ==
    [inserted |-> Len(src),
     updated  |-> Cardinality({k \in 1..Len(src) : src[k].listing_id \in Keys(dim)})]

\* OUTPUT $action INTO @merge_summary, grouped (lines 290, 308-310, 346-355)
MergeSummary(dim, src) ==
    [inserted |-> Cardinality({k \in 1..Len(src) : src[k].listing_id \notin Keys(dim)}),
     updated  |-> Cardinality({k \in 1..Len(src) : src[k].listing_id \in Keys(dim)})]

\* one row of INSERT INTO dim_listing_id_map ... SELECT (lines 293-300)
MapRow(s) ==
    [listing_id     |-> TryCastBigint(s.listing_id),
     listing_raw_id |-> s.listing_id,
     part1          |-> Left(s.listing_id, 6),
     part2          |-> Substring(s.listing_id, 7, 6),
     part3          |-> Substring(s.listing_id, 13, 6)]

\* variant: the mapping insert carries the MERGE's WHERE clause
MapRows_CastableOnly(staging) ==
    LET ok == SelectSeq(staging, IsCastable)
    IN  [k \in 1..Len(ok) |-> MapRow(ok[k])]

MapRows(staging) == [k \in 1..Len(staging) |-> MapRow(staging[k])]

-----------------------------------------------------------------------------
(* Transactions (pyodbc with autocommit off: every statement runs inside   *)
(* the connection's open transaction)                                      *)

\* conn.commit()
Commit(tables) == tables

\* variant: the failure path leaves the open transaction as it is
RolledBack_Missing(seen, committed) == seen

\* ROLLBACK TRANSACTION in the CATCH block, then conn.rollback() (lines
\* 320, 342): every change since the last commit is undone
RolledBack(seen, committed) == committed

\* hist with one more call; only the last two are kept
Remember(rec) == IF Len(hist) = 2 THEN <<hist[2], rec>> ELSE Append(hist, rec)

CallRecord(f, outcome) ==
    [file |-> f, outcome |-> outcome, step |-> "-", dim0 |-> cdb.dim,
     dim1 |-> cdb.dim, inserted |-> 0, updated |-> 0]

\* the record of the current call, closed with its outcome
Closed(outcome, step, dim, counts) ==
    [hist EXCEPT ![Len(hist)] =
        [@ EXCEPT !.outcome = outcome, !.step = step, !.dim1 = dim,
                  !.inserted = counts.inserted, !.updated = counts.updated]]

NoCounts == [inserted |-> 0, updated |-> 0]

\* the locals i, j, staging_inserted and summary end with the call
LocalsGone ==
    /\ i' = 1
    /\ j' = 1
    /\ staging_inserted' = 0
    /\ summary' = NoCounts

-----------------------------------------------------------------------------
(* _load_listings_data, lines 127-363 *)

\* the call: the file is read and its rows sanitized (lines 127-194)
Begin(f) ==
    /\ pc = "idle"
    /\ pc' = "truncate"
    /\ file' = f
    /\ hist' = Remember(CallRecord(f, "running"))
    /\ calls' = calls + 1
    /\ UNCHANGED <<i, j, staging_inserted, summary, db, cdb, skipped,
                   consecutive_errors, pre>>

\* pd.read_csv raises: the outer handler counts the error (lines 361-363)
BeginUnreadable(f) ==
    /\ pc = "idle"
    /\ file' = f
    /\ consecutive_errors' = consecutive_errors + 1
    /\ hist' = Remember(CallRecord(f, "error"))
    /\ calls' = calls + 1
    /\ UNCHANGED <<pc, i, j, staging_inserted, summary, db, cdb, skipped, pre>>

\* the loader is called on a file by hand or by a script
Call(f) == calls < MaxCalls /\ Begin(f) /\ UNCHANGED runvars

CallUnreadable(f) ==
    calls < MaxCalls /\ BeginUnreadable(f) /\ UNCHANGED runvars

\* TRUNCATE TABLE dim_listings_staging; conn.commit()  (lines 197-199)
TruncateOk ==
    /\ pc = "truncate"
    /\ db' = [db EXCEPT !.staging = <<>>]
    /\ cdb' = Commit(db')
    /\ pc' = "batch"
    /\ i' = 1
    /\ staging_inserted' = 0
    /\ UNCHANGED <<file, j, summary, skipped, consecutive_errors, pre, hist, calls>>
    /\ UNCHANGED runvars

\* the TRUNCATE raises and the exception is passed over (lines 200-201)
TruncateFail ==
    /\ pc = "truncate"
    /\ pc' = "batch"
    /\ i' = 1
    /\ staging_inserted' = 0
    /\ UNCHANGED <<file, j, summary, db, cdb, skipped, consecutive_errors,
                   pre, hist, calls>>
    /\ UNCHANGED runvars

\* cursor.executemany(batch); conn.commit()  (lines 212-216)
BatchOk ==
    /\ pc = "batch"
    /\ i <= Len(Rows)
    /\ \A k \in 1..Len(Batch) : StagingAccepts(Batch[k])
    /\ db' = [db EXCEPT !.staging = @ \o Batch]
    /\ cdb' = Commit(db')
    /\ staging_inserted' = staging_inserted + Len(Batch)
    /\ i' = i + BatchSize
    /\ UNCHANGED <<pc, file, j, summary, skipped, consecutive_errors, pre, hist, calls>>
    /\ UNCHANGED runvars

\* what a failed executemany leaves in the open transaction: the accepted
\* rows among the first k parameter rows, for a k the driver decides
PartialBatch(k) == SelectSeq(Take(Batch, k), StagingAccepts)

\* variant: a failed batch is given up, with no row-by-row fallback
BatchFail_NoFallback(k) ==
    /\ pc = "batch"
    /\ i <= Len(Rows)
    /\ \E m \in 1..Len(Batch) : StagingRejects(Batch[m])
    /\ db' = [db EXCEPT !.staging = @ \o PartialBatch(k)]
    /\ i' = i + BatchSize
    /\ UNCHANGED <<pc, file, j, staging_inserted, summary, cdb, skipped,
                   consecutive_errors, pre, hist, calls>>
    /\ UNCHANGED runvars

\* executemany raises; nothing is rolled back before the fallback
\* (lines 217-219)
BatchFail(k) ==
    /\ pc = "batch"
    /\ i <= Len(Rows)
    /\ \E m \in 1..Len(Batch) : StagingRejects(Batch[m])
    /\ db' = [db EXCEPT !.staging = @ \o PartialBatch(k)]
    /\ pc' = "single"
    /\ j' = 1
    /\ UNCHANGED <<file, i, staging_inserted, summary, cdb, skipped,
                   consecutive_errors, pre, hist, calls>>
    /\ UNCHANGED runvars

\* the loop "for j, single in enumerate(batch)" moves on, and with it the
\* batch loop after the last row
AfterSingle ==
    /\ j' = j + 1
    /\ IF j = Len(Batch)
       THEN pc' = "batch" /\ i' = i + BatchSize
       ELSE UNCHANGED <<pc, i>>

\* cursor.execute(single); conn.commit()  (lines 220-223)
SingleOk ==
    /\ pc = "single"
    /\ StagingAccepts(Batch[j])
    /\ db' = [db EXCEPT !.staging = Append(@, Batch[j])]
    /\ cdb' = Commit(db')
    /\ staging_inserted' = staging_inserted + 1
    /\ AfterSingle
    /\ UNCHANGED <<file, summary, skipped, consecutive_errors, pre, hist, calls>>
    /\ UNCHANGED runvars

\* the single insert raises: the row goes to the skipped-rows log
\* (lines 224-227)
SingleSkip ==
    /\ pc = "single"
    /\ StagingRejects(Batch[j])
    /\ skipped' = Append(skipped, CommaJoin(Batch[j]))
    /\ AfterSingle
    /\ UNCHANGED <<file, staging_inserted, summary, db, cdb,
                   consecutive_errors, pre, hist, calls>>
    /\ UNCHANGED runvars

\* the batch loop ends; the two COUNT queries read staging (lines 229-240)
StagingDone ==
    /\ pc = "batch"
    /\ i > Len(Rows)
    /\ pc' = "merge"
    /\ pre' = db
    /\ UNCHANGED <<file, i, j, staging_inserted, summary, db, cdb, skipped,
                   consecutive_errors, hist, calls>>
    /\ UNCHANGED runvars

\* MERGE INTO dim_listings (lines 251-290)
PromoteMerge ==
    /\ pc = "merge"
    /\ ~MergeRaises(MergeSource(db.staging))
    /\ db' = [db EXCEPT !.dim = Upsert(@, MergeSource(db.staging))]
    /\ summary' = MergeSummary(db.dim, MergeSource(db.staging))
    /\ pc' = "map"
    /\ UNCHANGED <<file, i, j, staging_inserted, cdb, skipped,
                   consecutive_errors, pre, hist, calls>>
    /\ UNCHANGED runvars

\* INSERT INTO dim_listing_id_map (lines 292-300)
PromoteMap ==
    /\ pc = "map"
    /\ db' = [db EXCEPT !.map = @ \o MapRows(db.staging)]
    /\ pc' = "clear"
    /\ UNCHANGED <<file, i, j, staging_inserted, summary, cdb, skipped,
                   consecutive_errors, pre, hist, calls>>
    /\ UNCHANGED runvars

\* TRUNCATE TABLE dim_listings_staging (line 303)
PromoteTruncate ==
    /\ pc = "clear"
    /\ db' = [db EXCEPT !.staging = <<>>]
    /\ pc' = "commit"
    /\ UNCHANGED <<file, i, j, staging_inserted, summary, cdb, skipped,
                   consecutive_errors, pre, hist, calls>>
    /\ UNCHANGED runvars

\* COMMIT TRANSACTION, the result sets are fetched, conn.commit(), the
\* counts are logged and the call returns (lines 305-359)
PromoteCommit ==
    /\ pc = "commit"
    /\ cdb' = Commit(db)
    /\ pc' = "idle"
    /\ hist' = Closed("loaded", "-", db.dim, summary)
    /\ LocalsGone
    /\ UNCHANGED <<file, db, skipped, consecutive_errors, pre, calls>>
    /\ UNCHANGED runvars

\* a step of the promote raises (at the MERGE: a repeated key, or any other
\* error): CATCH rolls back and rethrows, the handler rolls back and
\* returns (lines 319-322, 340-343)
PromoteFail ==
    /\ pc \in {"merge", "map", "clear", "commit"}
    /\ db' = RolledBack(db, cdb)
    /\ pc' = "idle"
    /\ hist' = Closed("promote_failed", IF pc = "commit" THEN pc ELSE "-",
                       cdb.dim, NoCounts)
    /\ LocalsGone
    /\ UNCHANGED <<file, cdb, skipped, consecutive_errors, pre, calls>>
    /\ UNCHANGED runvars

\* the process or the connection dies in the middle of a load: the server
\* discards the open transaction
Interrupt ==
    /\ pc # "idle"
    /\ db' = cdb
    /\ pc' = "idle"
    /\ hist' = Closed("interrupted", "-", cdb.dim, NoCounts)
    /\ LocalsGone
    /\ UNCHANGED <<file, cdb, skipped, consecutive_errors, pre, calls>>
    /\ UNCHANGED runvars

-----------------------------------------------------------------------------
(* scripts/run_move_steps.py *)

\* the SELECT of insert_listings: castable staged rows whose key is
\* NOT IN dim_listings
NewListings(tables) ==
    LET src == MergeSource(tables.staging)
        Absent(s) == s.listing_id \notin Keys(tables.dim)
    IN  SelectSeq(src, Absent)

\* the primary key of dim_listings refuses two new rows with one key
InsertListingsRaises(tables) == MergeRaises(NewListings(tables))

\* first try block: insert and commit, or roll back (lines 46-55)
AfterInsertListings(tables) ==
    IF InsertListingsRaises(tables) THEN tables
    ELSE [tables EXCEPT !.dim = @ \o NewListings(tables)]

\* second try block: the mapping rows (lines 57-67)
AfterInsertMap(tables) == [tables EXCEPT !.map = @ \o MapRows(tables.staging)]

RunMoveSteps ==
    /\ pc = "idle"
    /\ calls < MaxCalls
    /\ cdb.staging # <<>>
    /\ db' = AfterInsertMap(AfterInsertListings(cdb))
    /\ cdb' = Commit(db')
    /\ hist' = Remember([CallRecord("run_move_steps", "script")
                            EXCEPT !.dim1 = db'.dim])
    /\ calls' = calls + 1
    /\ UNCHANGED <<pc, file, i, j, staging_inserted, summary, skipped,
                   consecutive_errors, pre>>
    /\ UNCHANGED runvars

-----------------------------------------------------------------------------
(* Dates: datetime.date as year, month, day *)

Date(y, m, d) == [year |-> y, month |-> m, day |-> d]

IsLeap(y) == y % 4 = 0 /\ (y % 100 # 0 \/ y % 400 = 0)

DaysInMonth(y, m) ==
    IF m = 2 THEN (IF IsLeap(y) THEN 29 ELSE 28)
    ELSE IF m \in {4, 6, 9, 11} THEN 30 ELSE 31

\* d + timedelta(days=1)
NextDay(d) ==
    IF d.day < DaysInMonth(d.year, d.month) THEN [d EXCEPT !.day = @ + 1]
    ELSE IF d.month < 12 THEN Date(d.year, d.month + 1, 1)
    ELSE Date(d.year + 1, 1, 1)

\* a <= b on dates
DateLeq(a, b) ==
    \/ a.year < b.year
    \/ a.year = b.year /\ a.month < b.month
    \/ a.year = b.year /\ a.month = b.month /\ a.day <= b.day

RECURSIVE DaysBeforeMonth(_, _)
DaysBeforeMonth(y, m) ==
    IF m = 1 THEN 0 ELSE DaysBeforeMonth(y, m - 1) + DaysInMonth(y, m - 1)

\* d.toordinal(): 1 for 0001-01-01
Ordinal(d) ==
    LET y == d.year - 1
    IN  y * 365 + y \div 4 - y \div 100 + y \div 400
        + DaysBeforeMonth(d.year, d.month) + d.day

\* d.weekday(): 0 for Monday .. 6 for Sunday
Weekday(d) == (Ordinal(d) + 6) % 7

\* calendar.day_name
DayName == <<"Monday", "Tuesday", "Wednesday", "Thursday", "Friday",
             "Saturday", "Sunday">>

\* calendar.month_name[1..12]
MonthName == <<"January", "February", "March", "April", "May", "June",
               "July", "August", "September", "October", "November",
               "December">>

-----------------------------------------------------------------------------
(* _ensure_dim_dates, lines 484-522 *)

\* SELECT full_date FROM dim_dates WHERE full_date BETWEEN ? AND ?
ExistingDates(table, min_date, max_date) ==
    {table[k].full_date : k \in {n \in 1..Len(table) :
        DateLeq(min_date, table[n].full_date)
        /\ DateLeq(table[n].full_date, max_date)}}

\* the while loop of lines 494-497, from cur_date on
RECURSIVE AllDates(_, _, _)
AllDates(existing, cur_date, max_date) ==
    IF ~DateLeq(cur_date, max_date) THEN <<>>
    ELSE (IF cur_date \notin existing THEN <<cur_date>> ELSE <<>>)
         \o AllDates(existing, NextDay(cur_date), max_date)

\* variant: Friday counts as weekend
DateParams_FromFriday(d) ==
    [full_date  |-> d,
     year       |-> d.year,
     quarter    |-> (d.month - 1) \div 3 + 1,
     month      |-> d.month,
     month_name |-> MonthName[d.month],
     day        |-> d.day,
     day_name   |-> DayName[Weekday(d) + 1],
     is_weekend |-> IF Weekday(d) >= 4 THEN 1 ELSE 0]

\* one tuple of params (lines 503-511)
DateParams(d) ==
    [full_date  |-> d,
     year       |-> d.year,
     quarter    |-> (d.month - 1) \div 3 + 1,
     month      |-> d.month,
     month_name |-> MonthName[d.month],
     day        |-> d.day,
     day_name   |-> DayName[Weekday(d) + 1],
     is_weekend |-> IF Weekday(d) >= 5 THEN 1 ELSE 0]

\* dim_dates after the executemany of line 514
WithMissingDates(table, min_date, max_date) ==
    LET all_dates == AllDates(ExistingDates(table, min_date, max_date),
                              min_date, max_date)
    IN  table \o [k \in 1..Len(all_dates) |-> DateParams(all_dates[k])]

-----------------------------------------------------------------------------
(* load_to_warehouse and _load_data_with_dynamic_paths, lines 61-125 *)

\* the three globs of lines 106-108, in the order the loops visit them
ListingsFiles == <<"A", "B", "C">>
CalendarFiles == <<"cal1", "cal2">>
ReviewsFiles == <<"rev1", "rev2">>

Range(q) == {q[k] : k \in 1..Len(q)}

AllRunFiles == Range(ListingsFiles) \cup Range(CalendarFiles) \cup Range(ReviewsFiles)

\* max_retries of _load_reviews_data
MaxRetries == 3

RvIdle ==
    [pc |-> "idle", file |-> "-", attempt |-> 0, conn |-> 1, runs |-> 0,
     outcome |-> "-"]

\* no run of load_to_warehouse is going on
NoRun ==
    /\ entry = "off"
    /\ rpc = "off"
    /\ queue = <<>>
    /\ conns = <<"open">>
    /\ conn = 1
    /\ rv = RvIdle
    /\ attempted = {}
    /\ finished = {}
    /\ views_created = FALSE
    /\ stats_shown = FALSE
    /\ raised = FALSE

ListingVars == <<pc, file, i, j, staging_inserted, summary, skipped, pre,
                 hist, calls>>

\* the exception leaves _load_data_with_dynamic_paths and is logged by the
\* handler of load_to_warehouse; only "finally: conn.close()" is left
\* (lines 83-86)
Abort ==
    /\ raised' = TRUE
    /\ rpc' = "close"

\* 00_prepare_tables.sql and the schema scripts ran (lines 77-78)
SchemaOk ==
    /\ rpc = "schema"
    /\ rpc' = "clear"
    /\ UNCHANGED <<ListingVars, entry, db, cdb, consecutive_errors, queue,
                   conns, conn, rv, attempted, finished, views_created,
                   stats_shown, raised>>

\* _execute_sql_file raises (line 568)
SchemaFail ==
    /\ rpc = "schema"
    /\ Abort
    /\ UNCHANGED <<ListingVars, entry, db, cdb, consecutive_errors, queue,
                   conns, conn, rv, attempted, finished, views_created,
                   stats_shown>>

\* the five DELETEs and the commit (lines 93-100)
Cleared(tables) ==
    [tables EXCEPT !.rev = <<>>, !.cal = <<>>, !.map = <<>>, !.dim = <<>>,
                   !.hosts = {}]

ClearOk ==
    /\ rpc = "clear"
    /\ db' = Cleared(db)
    /\ cdb' = Commit(db')
    /\ rpc' = "listings"
    /\ queue' = ListingsFiles
    /\ UNCHANGED <<ListingVars, entry, consecutive_errors, conns, conn, rv,
                   attempted, finished, views_created, stats_shown, raised>>

\* a DELETE raises: rollback and return, no file is loaded (lines 101-104)
ClearFail ==
    /\ rpc = "clear"
    /\ db' = RolledBack(db, cdb)
    /\ rpc' = "views"
    /\ UNCHANGED <<ListingVars, entry, cdb, consecutive_errors, queue, conns,
                   conn, rv, attempted, finished, views_created, stats_shown,
                   raised>>

\* for file_path in listings_files: _load_listings_data(conn, file_path)
ListingsCall ==
    /\ rpc = "listings"
    /\ queue # <<>>
    /\ Begin(Head(queue))
    /\ queue' = Tail(queue)
    /\ attempted' = attempted \cup {Head(queue)}
    /\ UNCHANGED <<entry, rpc, conns, conn, rv, finished, views_created,
                   stats_shown, raised>>

ListingsCallUnreadable ==
    /\ rpc = "listings"
    /\ queue # <<>>
    /\ BeginUnreadable(Head(queue))
    /\ queue' = Tail(queue)
    /\ attempted' = attempted \cup {Head(queue)}
    /\ UNCHANGED <<entry, rpc, conns, conn, rv, finished, views_created,
                   stats_shown, raised>>

\* variant: the calendar loop is entered while listings files remain
ListingsDone_Early ==
    /\ entry = "full"
    /\ rpc = "listings"
    /\ pc = "idle"
    /\ rpc' = "calendar"
    /\ queue' = CalendarFiles
    /\ UNCHANGED <<ListingVars, entry, db, cdb, consecutive_errors, conns,
                   conn, rv, attempted, finished, views_created, stats_shown,
                   raised>>

\* the listings loop has ended (line 118)
ListingsDone ==
    /\ entry = "full"
    /\ rpc = "listings"
    /\ pc = "idle"
    /\ queue = <<>>
    /\ rpc' = "calendar"
    /\ queue' = CalendarFiles
    /\ UNCHANGED <<ListingVars, entry, db, cdb, consecutive_errors, conns,
                   conn, rv, attempted, finished, views_created, stats_shown,
                   raised>>

\* _load_calendar_data: the script runs and is committed (lines 385-403)
CalendarOk ==
    /\ rpc = "calendar"
    /\ queue # <<>>
    /\ conns[conn] = "open"
    /\ db' = [db EXCEPT !.cal = Append(@, Head(queue))]
    /\ cdb' = Commit(db')
    /\ queue' = Tail(queue)
    /\ attempted' = attempted \cup {Head(queue)}
    /\ finished' = finished \cup {Head(queue)}
    /\ UNCHANGED <<ListingVars, entry, consecutive_errors, rpc, conns, conn,
                   rv, views_created, stats_shown, raised>>

\* _load_calendar_data: the script raises on a live connection; the
\* handler counts the error and rolls back (lines 405-409)
CalendarError ==
    /\ rpc = "calendar"
    /\ queue # <<>>
    /\ conns[conn] = "open"
    /\ consecutive_errors' = consecutive_errors + 1
    /\ db' = RolledBack(db, cdb)
    /\ queue' = Tail(queue)
    /\ attempted' = attempted \cup {Head(queue)}
    /\ finished' = finished \cup {Head(queue)}
    /\ UNCHANGED <<ListingVars, entry, cdb, rpc, conns, conn, rv,
                   views_created, stats_shown, raised>>

\* _load_calendar_data: the connection drops during the script; the
\* handler counts the error, and its conn.rollback() on the dead
\* connection raises out of the handler (line 409)
CalendarConnLost ==
    /\ rpc = "calendar"
    /\ queue # <<>>
    /\ conns[conn] = "open"
    /\ conns' = [conns EXCEPT ![conn] = "broken"]
    /\ consecutive_errors' = consecutive_errors + 1
    /\ db' = cdb
    /\ queue' = Tail(queue)
    /\ attempted' = attempted \cup {Head(queue)}
    /\ Abort
    /\ UNCHANGED <<ListingVars, entry, cdb, conn, rv, finished, views_created,
                   stats_shown>>

\* the calendar loop has ended
CalendarDone ==
    /\ entry = "full"
    /\ rpc = "calendar"
    /\ queue = <<>>
    /\ rpc' = "reviews"
    /\ queue' = ReviewsFiles
    /\ UNCHANGED <<ListingVars, entry, db, cdb, consecutive_errors, conns,
                   conn, rv, attempted, finished, views_created, stats_shown,
                   raised>>

-----------------------------------------------------------------------------
(* _load_reviews_data, lines 420-482 *)

\* the call: the file is read, capped and written to the temporary file;
\* the parameter conn is the caller's connection (lines 420-447)
ReviewsCall ==
    /\ rpc = "reviews"
    /\ rv.pc = "idle"
    /\ queue # <<>>
    /\ rv' = [pc |-> "attempt", file |-> Head(queue), attempt |-> 0,
              conn |-> conn, runs |-> 0, outcome |-> "-"]
    /\ queue' = Tail(queue)
    /\ attempted' = attempted \cup {Head(queue)}
    /\ UNCHANGED <<ListingVars, entry, db, cdb, consecutive_errors, rpc,
                   conns, conn, finished, views_created, stats_shown, raised>>

\* the call has ended after ran more executions of the script: "loaded",
\* or logged as failed by line 478 and then returned ("failed") or left by
\* the exception of the rollback of line 479 ("raised")
RvEnded(ran, outcome) ==
    [rv EXCEPT !.pc = "idle", !.runs = @ + ran, !.outcome = outcome]

\* the call returns to the loop of line 124
ReviewsReturn(outcome) ==
    /\ rv' = RvEnded(1, outcome)
    /\ finished' = finished \cup {rv.file}

\* an attempt succeeds and is committed (lines 450-464)
ReviewsAttemptOk ==
    /\ rv.pc = "attempt"
    /\ conns[rv.conn] = "open"
    /\ db' = [db EXCEPT !.rev = Append(@, rv.file)]
    /\ cdb' = Commit(db')
    /\ ReviewsReturn("loaded")
    /\ UNCHANGED <<ListingVars, entry, consecutive_errors, rpc, queue, conns,
                   conn, attempted, views_created, stats_shown, raised>>

\* an attempt raises an error that is no connection error, at the latest
\* at the commit, when the script has written its rows: rollback, then
\* another attempt, or after the last one "raise" into the outer handler,
\* which rolls back again and returns (lines 469-479)
ReviewsAttemptError ==
    /\ rv.pc = "attempt"
    /\ conns[rv.conn] = "open"
    /\ db' = RolledBack([db EXCEPT !.rev = Append(@, rv.file)], cdb)
    /\ IF rv.attempt + 1 = MaxRetries
       THEN ReviewsReturn("failed")
       ELSE /\ rv' = [rv EXCEPT !.attempt = @ + 1, !.runs = @ + 1]
            /\ UNCHANGED finished
    /\ UNCHANGED <<ListingVars, entry, cdb, consecutive_errors, rpc, queue,
                   conns, conn, attempted, views_created, stats_shown, raised>>

\* an attempt raises a connection error: before the last attempt the
\* handler reconnects; on the last one it calls conn.rollback() on the dead
\* connection, which raises, and so does the rollback of the outer
\* handler (lines 466-471, 477-479)
ReviewsAttemptConnError ==
    /\ rv.pc = "attempt"
    /\ conns[rv.conn] = "open"
    /\ conns' = [conns EXCEPT ![rv.conn] = "broken"]
    /\ db' = cdb
    /\ IF rv.attempt < MaxRetries - 1
       THEN /\ rv' = [rv EXCEPT !.pc = "reconnect", !.runs = @ + 1]
            /\ UNCHANGED <<rpc, raised>>
       ELSE rv' = RvEnded(1, "raised") /\ Abort
    /\ UNCHANGED <<ListingVars, entry, cdb, consecutive_errors, queue, conn,
                   attempted, finished, views_created, stats_shown>>

\* _reconnect: the old connection is closed, a new one is created and
\* bound to the local name conn only (lines 49-59, 468)
ReviewsReconnectOk ==
    /\ rv.pc = "reconnect"
    /\ conns' = Append([conns EXCEPT ![rv.conn] = "closed"], "open")
    /\ rv' = [rv EXCEPT !.pc = "attempt", !.attempt = @ + 1,
                        !.conn = Len(conns) + 1]
    /\ UNCHANGED <<ListingVars, entry, db, cdb, consecutive_errors, rpc,
                   queue, conn, attempted, finished, views_created,
                   stats_shown, raised>>

\* _reconnect: create_connection raises; the outer handler's
\* conn.rollback() on the closed connection raises too (lines 57, 479)
ReviewsReconnectFail ==
    /\ rv.pc = "reconnect"
    /\ conns' = [conns EXCEPT ![rv.conn] = "closed"]
    /\ rv' = RvEnded(0, "raised")
    /\ Abort
    /\ UNCHANGED <<ListingVars, entry, db, cdb, consecutive_errors, queue,
                   conn, attempted, finished, views_created, stats_shown>>

\* the connection passed in is closed already: conn.cursor() raises, that
\* is no connection error, and both rollbacks raise (lines 450, 471, 479)
ReviewsOnClosedConn ==
    /\ rv.pc = "attempt"
    /\ conns[rv.conn] # "open"
    /\ rv' = RvEnded(0, "raised")
    /\ Abort
    /\ UNCHANGED <<ListingVars, entry, db, cdb, consecutive_errors, queue,
                   conns, conn, attempted, finished, views_created,
                   stats_shown>>

\* the reviews loop has ended; _load_data_with_dynamic_paths returns
ReviewsDone ==
    /\ entry = "full"
    /\ rpc = "reviews"
    /\ rv.pc = "idle"
    /\ queue = <<>>
    /\ rpc' = "views"
    /\ UNCHANGED <<ListingVars, entry, db, cdb, consecutive_errors, queue,
                   conns, conn, rv, attempted, finished, views_created,
                   stats_shown, raised>>

\* create_views(conn) (lines 80, 529-530)
CreateViewsOk ==
    /\ rpc = "views"
    /\ conns[conn] = "open"
    /\ views_created' = TRUE
    /\ rpc' = "stats"
    /\ UNCHANGED <<ListingVars, entry, db, cdb, consecutive_errors, queue,
                   conns, conn, rv, attempted, finished, stats_shown, raised>>

\* conn was closed by a reconnect inside _load_reviews_data: the view
\* script raises (line 568)
CreateViewsFail ==
    /\ rpc = "views"
    /\ conns[conn] # "open"
    /\ Abort
    /\ UNCHANGED <<ListingVars, entry, db, cdb, consecutive_errors, queue,
                   conns, conn, rv, attempted, finished, views_created,
                   stats_shown>>

\* _show_database_statistics(conn) (lines 81, 570-578)
ShowStats ==
    /\ rpc = "stats"
    /\ stats_shown' = TRUE
    /\ rpc' = "close"
    /\ UNCHANGED <<ListingVars, entry, db, cdb, consecutive_errors, queue,
                   conns, conn, rv, attempted, finished, views_created, raised>>

\* finally: conn.close() (line 86)
CloseConn ==
    /\ rpc = "close"
    /\ conns' = [conns EXCEPT ![conn] = "closed"]
    /\ rpc' = "done"
    /\ UNCHANGED <<ListingVars, entry, db, cdb, consecutive_errors, queue,
                   conn, rv, attempted, finished, views_created, stats_shown,
                   raised>>

-----------------------------------------------------------------------------
(* Specification: the loader called on any files in any order *)

Init ==
    /\ pc = "idle"
    /\ file = "A"
    /\ i = 1
    /\ j = 1
    /\ staging_inserted = 0
    /\ summary = NoCounts
    /\ db = EmptyTables
    /\ cdb = EmptyTables
    /\ skipped = <<>>
    /\ consecutive_errors = 0
    /\ pre = EmptyTables
    /\ hist = <<>>
    /\ calls = 0
    /\ NoRun

Next ==
    \/ \E f \in FileNames : Call(f)
    \/ \E f \in FileNames : CallUnreadable(f)
    \/ TruncateOk
    \/ TruncateFail
    \/ BatchOk
    \/ \E k \in 0..BatchSize : BatchFail(k)
    \/ SingleOk
    \/ SingleSkip
    \/ StagingDone
    \/ PromoteMerge
    \/ PromoteMap
    \/ PromoteTruncate
    \/ PromoteCommit
    \/ PromoteFail
    \/ Interrupt
    \/ RunMoveSteps

Spec == Init /\ [][Next]_vars

-----------------------------------------------------------------------------
(* Properties of the listings load *)

Last == hist[Len(hist)]

Returned(outcome) == pc = "idle" /\ hist # <<>> /\ Last.outcome = outcome

NoRepeatedKey(t) ==
    \A a, b \in 1..Len(t) : t[a].listing_id = t[b].listing_id => a = b

InTable(row, t) == \E k \in 1..Len(t) : t[k] = row

InSkippedLog(row) == \E k \in 1..Len(skipped) : skipped[k] = CommaJoin(row)

\* characters a..b of s, counted from 1, as far as s has them
Chars(s, a, b) ==
    IF s = NULL THEN NULL
    ELSE [q \in 1..(IF Len(s) < a THEN 0 ELSE Min(b, Len(s)) - a + 1) |-> s[a + q - 1]]

\* C1: when the promote of a file fails at any step, then after the call
\* has returned dim_listings, dim_listing_id_map and dim_listings_staging
\* hold exactly the rows they held when the promote began, both as seen by
\* the connection and as committed.
C1_FailedPromoteLeavesTables ==
    Returned("promote_failed") => db = pre /\ cdb = pre

\* a promote that failed at its last step, after the MERGE had inserted
\* rows, the mapping rows were written and staging was cleared
C1_Witness ==
    /\ Returned("promote_failed")
    /\ Last.step = "commit"
    /\ MergeSource(pre.staging) # <<>>
    /\ Keys(MergeSource(pre.staging)) \cap Keys(pre.dim) = {}

\* C2: two successful loads of the same file in a row: the second leaves
\* dim_listings exactly as the first left it and inserts no row.
C2_SecondLoadChangesNothing ==
    \A n \in 2..Len(hist) :
        (/\ hist[n].file = hist[n - 1].file
         /\ hist[n].outcome = "loaded"
         /\ hist[n - 1].outcome = "loaded")
        => /\ hist[n].dim1 = hist[n - 1].dim1
           /\ hist[n].inserted = 0

C2_Witness ==
    /\ Returned("loaded")
    /\ Len(hist) >= 2
    /\ hist[Len(hist) - 1].file = Last.file
    /\ hist[Len(hist) - 1].outcome = "loaded"
    /\ Len(Last.dim1) >= 2
    /\ Last.updated >= 2
    /\ Last.dim0 = Last.dim1

\* C3: no two rows of dim_listings have the same listing_id, in any state.
C3_ListingIdUnique == NoRepeatedKey(db.dim) /\ NoRepeatedKey(cdb.dim)

\* listing 42 was loaded from file A and again from file B, and file C,
\* which repeats listing 42, has been through the promote
C3_Witness ==
    /\ calls = 3
    /\ hist[1].file = "B" /\ hist[1].outcome = "loaded" /\ hist[1].updated = 1
    /\ hist[2].file = "C" /\ hist[2].outcome = "promote_failed"
    /\ Len(cdb.dim) = 2

\* the identifiers of the input files that are no 64-bit integer: 23
\* digits, 2^63, and a missing id
UncastableIds == {BIG23, BigintMinMag, NULL}

\* the host names carried by the rows with those identifiers
UncastableNames == {<<"x">>, <<"!">>, <<"y">>}

\* C4: a staged row whose identifier cannot be cast to a 64-bit integer
\* never reaches dim_listings, neither as a key nor through the values of
\* an updated row, and after a successful promote dim_listing_id_map holds
\* a row with its raw identifier and a null listing_id.
C4_UncastableOnlyInMap ==
    /\ \A t \in {db.dim, cdb.dim} : \A k \in 1..Len(t) :
          /\ t[k].listing_id \notin UncastableIds
          /\ t[k].host_name \notin UncastableNames
    /\ Returned("loaded") =>
          \A k \in 1..Len(pre.staging) :
              pre.staging[k].listing_id \in UncastableIds =>
                  \E m \in 1..Len(cdb.map) :
                      /\ cdb.map[m].listing_raw_id = pre.staging[k].listing_id
                      /\ cdb.map[m].listing_id = NULL

\* a successful promote of staging that held the 23-digit identifier
C4_Witness ==
    /\ Returned("loaded")
    /\ \E k \in 1..Len(pre.staging) : pre.staging[k].listing_id = BIG23
    /\ cdb.dim # <<>>

\* C5: a successful promote appends to dim_listing_id_map exactly one row
\* per staged row, in which listing_raw_id is the staged identifier and
\* part1, part2, part3 are its characters 1-6, 7-12 and 13-18; every
\* identifier promoted into dim_listings is among those raw identifiers.
C5_MapGainsEveryStagedRow ==
    Returned("loaded") =>
        LET st == pre.staging
            n0 == Len(pre.map)
        IN  /\ Len(cdb.map) = n0 + Len(st)
            /\ SubSeq(cdb.map, 1, n0) = pre.map
            /\ \A k \in 1..Len(st) :
                  LET m == cdb.map[n0 + k]
                  IN  /\ m.listing_raw_id = st[k].listing_id
                      /\ m.part1 = Chars(st[k].listing_id, 1, 6)
                      /\ m.part2 = Chars(st[k].listing_id, 7, 12)
                      /\ m.part3 = Chars(st[k].listing_id, 13, 18)
            /\ \A d \in 1..Len(cdb.dim) :
                  cdb.dim[d].listing_id \notin Keys(pre.dim) =>
                      \E k \in 1..Len(st) :
                          /\ cdb.map[n0 + k].listing_id = cdb.dim[d].listing_id
                          /\ cdb.map[n0 + k].listing_raw_id = st[k].listing_id

\* a successful promote of a file with castable and uncastable identifiers,
\* one of them longer than 18 characters, into a map that held rows already
C5_Witness ==
    /\ Returned("loaded")
    /\ pre.map # <<>>
    /\ \E k \in 1..Len(pre.staging) : Len(pre.staging[k].listing_id) > 18
    /\ \E k \in 1..Len(pre.staging) : pre.staging[k].listing_id = NULL
    /\ \E k \in 1..Len(pre.staging) : IsCastable(pre.staging[k])

\* a load that was cut short by the death of the process or connection
CutShort == hist' # <<>> /\ hist'[Len(hist')].outcome = "interrupted"

\* C6: when the staging loop of a file has ended, every sanitized row is
\* either in the staging table or in the skipped-rows log, never in both
\* and never in neither; a row the table accepts on its own is staged even
\* if its batch failed; and the loop is left only at its end, never by an
\* insert failure.
C6_EveryRowStagedOrLogged ==
    /\ [](pc = "merge" =>
            \A k \in 1..Len(Rows) :
                /\ InTable(Rows[k], db.staging) # InSkippedLog(Rows[k])
                /\ StagingAccepts(Rows[k]) => InTable(Rows[k], db.staging))
    /\ [][(pc \in {"batch", "single"} /\ ~CutShort)
            => pc' \in {"batch", "single", "merge"}]_vars

\* the loop has ended for a file whose first batch failed: a row of that
\* batch is staged, the refused row is in the log
C6_Witness ==
    /\ pc = "merge"
    /\ file = "B"
    /\ skipped # <<>>
    /\ \E k \in 1..Len(Rows) : StagingRejects(Rows[k]) /\ InSkippedLog(Rows[k])
    /\ InTable(Rows[1], db.staging)
    /\ staging_inserted = Len(Rows) - 1

\* C7 (as claimed): when the first row of a file is about to be inserted,
\* the staging table is empty.
C7_StagingEmptyBeforeFirstInsert ==
    (pc = "batch" /\ i = 1) => db.staging = <<>>

\* the rows a load of file f promotes when nothing interferes
CleanSource(f) == MergeSource(SelectSeq(SanitizeRows(Files[f]), StagingAccepts))

\* C8 (as claimed): a load that completes right after an interrupted or
\* failed load of the same file leaves dim_listings as one uninterrupted
\* load of the file would have, starting from the tables the first attempt
\* found.
C8_RerunEqualsOneLoad ==
    \A n \in 2..Len(hist) :
        (/\ hist[n].outcome = "loaded"
         /\ hist[n - 1].file = hist[n].file
         /\ hist[n - 1].outcome \in {"interrupted", "promote_failed"})
        => hist[n].dim1 = Upsert(hist[n - 1].dim0, CleanSource(hist[n].file))

-----------------------------------------------------------------------------
(* Specification: one full load, load_to_warehouse from line 74 on *)

InitRun ==
    /\ pc = "idle"
    /\ file = "A"
    /\ i = 1
    /\ j = 1
    /\ staging_inserted = 0
    /\ summary = NoCounts
    /\ db = EmptyTables
    /\ cdb = EmptyTables
    /\ skipped = <<>>
    /\ consecutive_errors = 0
    /\ pre = EmptyTables
    /\ hist = <<>>
    /\ calls = 0
    /\ entry = "full"
    /\ rpc = "schema"
    /\ queue = <<>>
    /\ conns = <<"open">>
    /\ conn = 1
    /\ rv = RvIdle
    /\ attempted = {}
    /\ finished = {}
    /\ views_created = FALSE
    /\ stats_shown = FALSE
    /\ raised = FALSE

NextRun ==
    \/ SchemaOk
    \/ SchemaFail
    \/ ClearOk
    \/ ClearFail
    \/ ListingsCall
    \/ ListingsCallUnreadable
    \/ TruncateOk
    \/ TruncateFail
    \/ BatchOk
    \/ \E k \in 0..BatchSize : BatchFail(k)
    \/ SingleOk
    \/ SingleSkip
    \/ StagingDone
    \/ PromoteMerge
    \/ PromoteMap
    \/ PromoteTruncate
    \/ PromoteCommit
    \/ PromoteFail
    \/ ListingsDone
    \/ CalendarOk
    \/ CalendarError
    \/ CalendarConnLost
    \/ CalendarDone
    \/ ReviewsCall
    \/ ReviewsAttemptOk
    \/ ReviewsAttemptError
    \/ ReviewsAttemptConnError
    \/ ReviewsReconnectOk
    \/ ReviewsReconnectFail
    \/ ReviewsOnClosedConn
    \/ ReviewsDone
    \/ CreateViewsOk
    \/ CreateViewsFail
    \/ ShowStats
    \/ CloseConn

SpecRun == InitRun /\ [][NextRun]_vars

-----------------------------------------------------------------------------
(* Properties of the full load *)

\* the files whose load has returned to the loop that called it
FinishedFiles ==
    finished \cup {f \in attempted \cap Range(ListingsFiles) : pc = "idle" \/ file # f}

\* C9: no calendar file load starts before every listings file load has
\* returned, and no reviews file load starts before every calendar file
\* load has returned.
C9_PhasesInOrder ==
    /\ attempted \cap Range(CalendarFiles) # {}
          => Range(ListingsFiles) \subseteq FinishedFiles
    /\ attempted \cap Range(ReviewsFiles) # {}
          => Range(ListingsFiles) \cup Range(CalendarFiles) \subseteq FinishedFiles

\* the last reviews file is being loaded
C9_Witness ==
    /\ rv.pc = "attempt"
    /\ attempted = AllRunFiles
    /\ cdb.dim # <<>>

\* C10 (as claimed): a run in which file loads were called ends with every
\* file of every phase attempted, the views created and the statistics
\* reported, whatever failed on the way.
C10_FailureNeverAbortsRun ==
    (rpc = "done" /\ attempted # {})
        => attempted = AllRunFiles /\ views_created /\ stats_shown

-----------------------------------------------------------------------------
(* The error counter *)

\* the step ends the load of a file in failure: a listings file that could
\* not be read or promoted, a calendar file whose script did not commit, a
\* reviews file whose call ends with no attempt committed
FileLoadFails ==
    \/ /\ calls' # calls \/ hist' # hist
       /\ hist' # <<>>
       /\ hist'[Len(hist')].outcome \in {"error", "promote_failed"}
    \/ rpc = "calendar" /\ queue' # queue /\ cdb'.cal = cdb.cal
    \/ rv.pc \in {"attempt", "reconnect"} /\ rv'.pc = "idle" /\ cdb'.rev = cdb.rev

\* the step ends the load of a file with its rows committed
FileLoadSucceeds ==
    \/ hist' # hist /\ hist' # <<>> /\ hist'[Len(hist')].outcome = "loaded"
    \/ rpc = "calendar" /\ cdb'.cal # cdb.cal
    \/ rv.pc = "attempt" /\ cdb'.rev # cdb.rev

\* C11 (as claimed): every step that ends a file load in failure, in any of
\* the three phases, adds exactly one to consecutive_errors, and a step that
\* ends a file load successfully leaves the counter unchanged.
C11_EveryFailureCounted ==
    [][/\ FileLoadFails => consecutive_errors' = consecutive_errors + 1
       /\ FileLoadSucceeds => consecutive_errors' = consecutive_errors]_vars

-----------------------------------------------------------------------------
(* The retry loop of the reviews load *)

\* a call of _load_reviews_data has ended
ReviewsCallEnded == rv.pc = "idle" /\ rv.file # "-"

\* C12 (as claimed): the load script of a reviews file is executed at most
\* MaxRetries times and, once the call has ended, at least once; no attempt
\* follows a successful one; every retry runs on a live connection (after a
\* dropped connection, on a new one); and a file whose MaxRetries attempts
\* all failed has been reported as failed.
C12_ReviewsRetryLoop ==
    /\ rv.runs <= MaxRetries
    /\ ReviewsCallEnded => rv.runs >= 1
    /\ rv.outcome = "loaded" => rv.pc = "idle"
    /\ (rv.pc = "attempt" /\ rv.attempt > 0) => conns[rv.conn] = "open"
    /\ (ReviewsCallEnded /\ rv.runs = MaxRetries /\ rv.file \notin Range(cdb.rev))
          => rv.outcome \in {"failed", "raised"}

\* the parts of C12 that hold: all of it but "at least once"
C12_RetryLoopBounded ==
    /\ rv.runs <= MaxRetries
    /\ rv.outcome = "loaded" => rv.pc = "idle"
    /\ (rv.pc = "attempt" /\ rv.attempt > 0) => conns[rv.conn] = "open"
    /\ (ReviewsCallEnded /\ rv.runs = MaxRetries /\ rv.file \notin Range(cdb.rev))
          => rv.outcome \in {"failed", "raised"}

-----------------------------------------------------------------------------
(* The entry points: run_sql_data_loading of main.py (phases 1 to 4) and
   scripts/app/run_full_loader_split.py *)

\* the rows one listing file of an earlier run left behind
EarlierStaged == <<SanitizeRow(RawRow(T07, <<"b">>))>>

\* the tables as earlier runs over other files left them
LeftOver ==
    [staging |-> <<>>,
     dim     |-> Upsert(<<>>, MergeSource(EarlierStaged)),
     map     |-> MapRows(EarlierStaged),
     cal     |-> <<"old", "cal1">>,
     rev     |-> <<"old">>,
     hosts   |-> {<<"b">>},
     dates   |-> <<>>,
     sample  |-> <<>>,
     weeks   |-> {}]

EarlierTables == {EmptyTables, LeftOver}

\* 02_load_hosts.sql: the distinct hosts of dim_listings
HostsOf(dim) == {dim[k].host_name : k \in 1..Len(dim)}

\* phase == '1': the listings loop (main.py, lines 153-158)
ChoosePhase1 ==
    /\ rpc = "menu"
    /\ entry' = "phase1"
    /\ rpc' = "listings"
    /\ queue' = ListingsFiles
    /\ UNCHANGED <<ListingVars, db, cdb, consecutive_errors, conns, conn, rv,
                   attempted, finished, views_created, stats_shown, raised>>

\* the listings loop of phase 1 has ended (line 160)
Phase1ListingsDone ==
    /\ entry = "phase1"
    /\ rpc = "listings"
    /\ pc = "idle"
    /\ queue = <<>>
    /\ rpc' = "hosts"
    /\ UNCHANGED <<ListingVars, entry, db, cdb, consecutive_errors, queue,
                   conns, conn, rv, attempted, finished, views_created,
                   stats_shown, raised>>

\* TRUNCATE TABLE dim_hosts, 02_load_hosts.sql, commit (lines 160-176)
PopulateHostsOk ==
    /\ rpc = "hosts"
    /\ db' = [db EXCEPT !.hosts = HostsOf(db.dim)]
    /\ cdb' = Commit(db')
    /\ rpc' = "close"
    /\ UNCHANGED <<ListingVars, entry, consecutive_errors, queue, conns, conn,
                   rv, attempted, finished, views_created, stats_shown,
                   raised>>

\* a statement of lines 161-175 raises: nothing is committed, the exception
\* leaves run_sql_data_loading through "finally: conn.close()"
PopulateHostsFail ==
    /\ rpc = "hosts"
    /\ db' = RolledBack(db, cdb)
    /\ Abort
    /\ UNCHANGED <<ListingVars, entry, cdb, consecutive_errors, queue, conns,
                   conn, rv, attempted, finished, views_created, stats_shown>>

\* phase == '2' (lines 179-180)
ChoosePhase2 ==
    /\ rpc = "menu"
    /\ entry' = "phase2"
    /\ rpc' = "clear_calendar"
    /\ UNCHANGED <<ListingVars, db, cdb, consecutive_errors, queue, conns,
                   conn, rv, attempted, finished, views_created, stats_shown,
                   raised>>

\* TRUNCATE TABLE fact_calendar; commit (lines 182-186)
Phase2ClearOk ==
    /\ rpc = "clear_calendar"
    /\ db' = [db EXCEPT !.cal = <<>>]
    /\ cdb' = Commit(db')
    /\ rpc' = "calendar"
    /\ queue' = CalendarFiles
    /\ UNCHANGED <<ListingVars, entry, consecutive_errors, conns, conn, rv,
                   attempted, finished, views_created, stats_shown, raised>>

\* the TRUNCATE raises: no file is loaded (lines 181-192)
Phase2ClearFail ==
    /\ rpc = "clear_calendar"
    /\ db' = RolledBack(db, cdb)
    /\ Abort
    /\ UNCHANGED <<ListingVars, entry, cdb, consecutive_errors, queue, conns,
                   conn, rv, attempted, finished, views_created, stats_shown>>

\* the calendar loop of phase 2 has ended (lines 188-192)
Phase2CalendarDone ==
    /\ entry = "phase2"
    /\ rpc = "calendar"
    /\ queue = <<>>
    /\ rpc' = "close"
    /\ UNCHANGED <<ListingVars, entry, db, cdb, consecutive_errors, queue,
                   conns, conn, rv, attempted, finished, views_created,
                   stats_shown, raised>>

\* phase == '3' (lines 193-194)
ChoosePhase3 ==
    /\ rpc = "menu"
    /\ entry' = "phase3"
    /\ rpc' = "clear_reviews"
    /\ UNCHANGED <<ListingVars, db, cdb, consecutive_errors, queue, conns,
                   conn, rv, attempted, finished, views_created, stats_shown,
                   raised>>

\* TRUNCATE TABLE fact_reviews; commit (lines 196-200)
Phase3ClearOk ==
    /\ rpc = "clear_reviews"
    /\ db' = [db EXCEPT !.rev = <<>>]
    /\ cdb' = Commit(db')
    /\ rpc' = "reviews"
    /\ queue' = ReviewsFiles
    /\ UNCHANGED <<ListingVars, entry, consecutive_errors, conns, conn, rv,
                   attempted, finished, views_created, stats_shown, raised>>

\* the TRUNCATE raises: no file is loaded (lines 195-206)
Phase3ClearFail ==
    /\ rpc = "clear_reviews"
    /\ db' = RolledBack(db, cdb)
    /\ Abort
    /\ UNCHANGED <<ListingVars, entry, cdb, consecutive_errors, queue, conns,
                   conn, rv, attempted, finished, views_created, stats_shown>>

\* the reviews loop of phase 3 has ended (lines 202-206)
Phase3ReviewsDone ==
    /\ entry = "phase3"
    /\ rpc = "reviews"
    /\ rv.pc = "idle"
    /\ queue = <<>>
    /\ rpc' = "close"
    /\ UNCHANGED <<ListingVars, entry, db, cdb, consecutive_errors, queue,
                   conns, conn, rv, attempted, finished, views_created,
                   stats_shown, raised>>

\* phase == '4': loader.load_to_warehouse() (lines 205-206)
ChoosePhase4 ==
    /\ rpc = "menu"
    /\ entry' = "full"
    /\ rpc' = "schema"
    /\ UNCHANGED <<ListingVars, db, cdb, consecutive_errors, queue, conns,
                   conn, rv, attempted, finished, views_created, stats_shown,
                   raised>>

\* run_full_loader_split.py: AirbnbDataLoader(cfg) is called without the
\* db_config that __init__ (data_loader.py, line 40) requires: TypeError,
\* before any phase of lines 36-75 is reached; no table is touched
SplitRunner ==
    /\ rpc = "menu"
    /\ entry' = "split"
    /\ raised' = TRUE
    /\ rpc' = "done"
    /\ UNCHANGED <<ListingVars, db, cdb, consecutive_errors, queue, conns,
                   conn, rv, attempted, finished, views_created, stats_shown>>

InitEntry ==
    /\ pc = "idle"
    /\ file = "A"
    /\ i = 1
    /\ j = 1
    /\ staging_inserted = 0
    /\ summary = NoCounts
    /\ db \in EarlierTables
    /\ cdb = db
    /\ skipped = <<>>
    /\ consecutive_errors = 0
    /\ pre = db
    /\ hist = <<>>
    /\ calls = 0
    /\ entry = "menu"
    /\ rpc = "menu"
    /\ queue = <<>>
    /\ conns = <<"open">>
    /\ conn = 1
    /\ rv = RvIdle
    /\ attempted = {}
    /\ finished = {}
    /\ views_created = FALSE
    /\ stats_shown = FALSE
    /\ raised = FALSE

NextEntry ==
    \/ ChoosePhase1
    \/ Phase1ListingsDone
    \/ PopulateHostsOk
    \/ PopulateHostsFail
    \/ ChoosePhase2
    \/ Phase2ClearOk
    \/ Phase2ClearFail
    \/ Phase2CalendarDone
    \/ ChoosePhase3
    \/ Phase3ClearOk
    \/ Phase3ClearFail
    \/ Phase3ReviewsDone
    \/ ChoosePhase4
    \/ SplitRunner
    \/ NextRun

SpecEntry == InitEntry /\ [][NextEntry]_vars

-----------------------------------------------------------------------------
(* Properties of the entry points *)

\* C13 (as claimed): in a full load dim_hosts holds the hosts of
\* dim_listings from the end of the listings phase on: when a calendar or
\* reviews file is loaded and when the views are created; and the
\* statistics are reported only after the views were created.
C13_HostsPopulatedInFullLoad ==
    entry = "full" =>
        /\ (attempted \ Range(ListingsFiles) # {} \/ views_created)
              => cdb.hosts = HostsOf(cdb.dim)
        /\ stats_shown => views_created

\* a run of the calendar phase has ended: the calendar loop of a full load
\* was reached, phase 2 ended with no statement raising, or the split
\* runner ended
CalendarPhaseEnded ==
    /\ rpc = "done"
    /\ \/ entry = "split"
       \/ entry = "phase2" /\ ~raised
       \/ entry = "full" /\ attempted \cap Range(CalendarFiles) # {}

\* no file occurs twice in the fact table t
LoadedOnce(t) == \A a, b \in 1..Len(t) : t[a] = t[b] => a = b

\* C14 (as claimed): from every entry point fact_calendar is empty when the
\* first calendar file of a run is loaded, and when a run of the calendar
\* phase has ended the table holds rows of that run's files only, none of
\* them twice.
C14_CalendarEmptiedPerRun ==
    /\ (rpc = "calendar" /\ queue = CalendarFiles) => cdb.cal = <<>>
    /\ CalendarPhaseEnded
          => Range(cdb.cal) \subseteq Range(CalendarFiles) /\ LoadedOnce(cdb.cal)

\* the part of C14 that holds: whenever calendar files were loaded, the
\* table had been emptied first
C14_EmptiedBeforeAnyLoad ==
    /\ (rpc = "calendar" /\ queue = CalendarFiles) => cdb.cal = <<>>
    /\ attempted \cap Range(CalendarFiles) # {}
          => Range(cdb.cal) \subseteq Range(CalendarFiles) /\ LoadedOnce(cdb.cal)

-----------------------------------------------------------------------------
(* The date dimension and the calendar load *)

\* the minimum and maximum date of the rows of each calendar file
CalendarRange ==
    [cal1 |-> [min |-> Date(2024, 2, 28), max |-> Date(2024, 3, 1)],
     cal2 |-> [min |-> Date(2024, 3, 1), max |-> Date(2024, 3, 2)]]

\* every date from min_date to max_date has a row in the dim_dates table
Covered(table, min_date, max_date) ==
    LET wanted == AllDates({}, min_date, max_date)
    IN  \A k \in 1..Len(wanted) :
            \E n \in 1..Len(table) : table[n].full_date = wanted[k]

\* C15 (as claimed): for every calendar file a run has loaded into
\* fact_calendar, dim_dates holds every date between the file's minimum
\* and maximum date.
C15_DatesCoveredBeforeInsert ==
    \A f \in attempted \cap DOMAIN CalendarRange :
        f \in Range(db.cal)
            => Covered(db.dates, CalendarRange[f].min, CalendarRange[f].max)

-----------------------------------------------------------------------------
(* Specification: _ensure_dim_dates on any dim_dates table, as            *)
(* scripts/ensure_dim_dates_for_sample.py runs it                         *)

WindowDays == 5
MaxEnsures == 1

\* the dates a call can name: around the turn of the year and the leap day
WindowStarts == {Date(2023, 12, 29), Date(2024, 2, 27)}

RECURSIVE WindowFrom(_, _)
WindowFrom(d, n) ==
    IF n = 0 THEN <<>> ELSE <<d>> \o WindowFrom(NextDay(d), n - 1)

Window(s) == WindowFrom(s, WindowDays)

\* the rows of dim_dates for the dates of window s that are in set have
RowsOf(s, have) ==
    LET kept == SelectSeq(Window(s), LAMBDA d : d \in have)
    IN  [k \in 1..Len(kept) |-> DateParams(kept[k])]

EnsureStill ==
    UNCHANGED <<pc, file, i, j, staging_inserted, summary, skipped,
                consecutive_errors, runvars>>

\* lines 487-517: the missing dates are inserted and committed
EnsureDimDatesOk ==
    /\ calls < MaxEnsures
    /\ \E s \in WindowStarts : \E min_date, max_date \in Range(Window(s)) :
        LET after == WithMissingDates(db.dates, min_date, max_date)
        IN  /\ db' = [db EXCEPT !.dates = after]
            /\ cdb' = IF after # db.dates THEN Commit(db') ELSE cdb
            /\ hist' = <<[min_date |-> min_date, max_date |-> max_date,
                          outcome |-> "ok"]>>
    /\ pre' = db
    /\ calls' = calls + 1
    /\ EnsureStill

\* lines 519-522: a statement raised; the handler rolls back
EnsureDimDatesFail ==
    /\ calls < MaxEnsures
    /\ hist' = <<[outcome |-> "error"]>>
    /\ db' = RolledBack(db, cdb)
    /\ cdb' = cdb
    /\ pre' = db
    /\ calls' = calls + 1
    /\ EnsureStill

InitDates ==
    /\ pc = "idle"
    /\ file = "A"
    /\ i = 1
    /\ j = 1
    /\ staging_inserted = 0
    /\ summary = NoCounts
    /\ \E s \in WindowStarts : \E have \in SUBSET Range(Window(s)) :
        db = [EmptyTables EXCEPT !.dates = RowsOf(s, have)]
    /\ cdb = db
    /\ skipped = <<>>
    /\ consecutive_errors = 0
    /\ pre = db
    /\ hist = <<>>
    /\ calls = 0
    /\ entry = "ensure_dim_dates"
    /\ rpc = "off"
    /\ queue = <<>>
    /\ conns = <<"open">>
    /\ conn = 1
    /\ rv = RvIdle
    /\ attempted = {}
    /\ finished = {}
    /\ views_created = FALSE
    /\ stats_shown = FALSE
    /\ raised = FALSE

NextDates ==
    \/ EnsureDimDatesOk
    \/ EnsureDimDatesFail

SpecDates == InitDates /\ [][NextDates]_vars

-----------------------------------------------------------------------------
(* Properties of _ensure_dim_dates *)

\* the day of the week by Sakamoto's rule: 0 for Sunday .. 6 for Saturday
SundayFirstNames == <<"Sunday", "Monday", "Tuesday", "Wednesday",
                      "Thursday", "Friday", "Saturday">>

MonthShift == <<0, 3, 2, 5, 0, 3, 5, 1, 4, 6, 2, 4>>

DayOfWeek(d) ==
    LET y == IF d.month < 3 THEN d.year - 1 ELSE d.year
    IN  (y + y \div 4 - y \div 100 + y \div 400 + MonthShift[d.month]
         + d.day) % 7

RowsWithDate(table, d) == {k \in 1..Len(table) : table[k].full_date = d}

EnsuredRange == AllDates({}, Last.min_date, Last.max_date)

\* C16: after a successful _ensure_dim_dates(min_date, max_date) with
\* min_date <= max_date every date of the range has exactly one row in
\* dim_dates; the rows that were there before are still there, unchanged
\* and in place; every added row has quarter = (month - 1) div 3 + 1 in
\* 1..4, the name of its day of the week, and is_weekend = 1 exactly on
\* Saturday and Sunday.
C16_RangeFilledOnce ==
    (Returned("ok") /\ DateLeq(Last.min_date, Last.max_date)) =>
        /\ \A k \in 1..Len(EnsuredRange) :
               Cardinality(RowsWithDate(db.dates, EnsuredRange[k])) = 1
        /\ Len(db.dates) >= Len(pre.dates)
        /\ \A k \in 1..Len(pre.dates) : db.dates[k] = pre.dates[k]
        /\ \A k \in (Len(pre.dates) + 1)..Len(db.dates) :
               LET row == db.dates[k]
                   name == SundayFirstNames[DayOfWeek(row.full_date) + 1]
               IN  /\ row.quarter = (row.month - 1) \div 3 + 1
                   /\ row.quarter \in 1..4
                   /\ row.month = row.full_date.month
                   /\ row.day_name = name
                   /\ row.is_weekend = 1 <=> name \in {"Saturday", "Sunday"}
                   /\ row.is_weekend \in {0, 1}

\* a call over the turn of the year added the weekend and the days around
\* it to a table that already held one of them
C16_Witness ==
    /\ Returned("ok")
    /\ Last.min_date = Date(2023, 12, 29)
    /\ Last.max_date = Date(2024, 1, 2)
    /\ Len(pre.dates) = 1
    /\ Len(db.dates) = 5

-----------------------------------------------------------------------------
(* The identifier map across the entry points *)

IsPrefix(s, t) == Len(s) <= Len(t) /\ \A k \in 1..Len(s) : t[k] = s[k]

\* C17 (as claimed): no step of any loader operation (a file load, a rerun,
\* a full load) deletes or changes a committed row of dim_listing_id_map:
\* the committed rows before the step are the first rows after it.
C17_IdMapAppendOnly ==
    [][IsPrefix(cdb.map, cdb.map')]_vars

\* within a run of file loads and reruns alone the map only grows
C17_FileLoadsOnlyAppend ==
    [][(entry \in {"phase1", "off"}) => IsPrefix(cdb.map, cdb.map')]_vars

-----------------------------------------------------------------------------
(* Server-side expressions of insert_calendar                             *)
(* (scripts/debug/ensure_dim_dates_for_sample.py, lines 70-83)            *)

\* d - timedelta(days=1)
PrevDay(d) ==
    IF d.day > 1 THEN [d EXCEPT !.day = @ - 1]
    ELSE IF d.month > 1
         THEN Date(d.year, d.month - 1, DaysInMonth(d.year, d.month - 1))
    ELSE Date(d.year - 1, 12, 31)

\* DATEADD(day, n, d)
RECURSIVE AddDays(_, _)
AddDays(d, n) ==
    IF n = 0 THEN d
    ELSE IF n > 0 THEN AddDays(NextDay(d), n - 1)
    ELSE AddDays(PrevDay(d), n + 1)

\* the date the integer 0 converts to: 1900-01-01, a Monday
DateZero == Date(1900, 1, 1)

\* DATEDIFF(day, 0, d)
DayNumber(d) == Ordinal(d) - Ordinal(DateZero)

\* DATEDIFF(wk, 0, d) for d >= 1900-01-01: the week boundaries crossed
\* between the two dates; DATEDIFF puts the boundary before every Sunday,
\* whatever DATEFIRST is
DateDiffWk(d) == (DayNumber(d) + 1) \div 7

\* DATEADD(wk, k, base): the date numbered base + 7k, found from d
WeekDate(d, base) == AddDays(d, base + 7 * DateDiffWk(d) - DayNumber(d))

\* DATEADD(wk, DATEDIFF(wk, 0, d), 0)
WeekStart(d) == WeekDate(d, 0)

\* DATEADD(wk, DATEDIFF(wk, 0, d), 6)
WeekEnd(d) == WeekDate(d, 6)

\* REPLACE(s, c, '') for a single character c
Remove(s, c) == IF s = NULL THEN NULL ELSE SelectSeq(s, LAMBDA x : x # c)

\* LTRIM(RTRIM(s))
Trim(s) == IF s = NULL THEN NULL ELSE Strip(s)

UpperLetters == <<"A", "B", "C", "D", "E", "F", "G", "H", "I", "J", "K", "L",
                  "M", "N", "O", "P", "Q", "R", "S", "T", "U", "V", "W", "X",
                  "Y", "Z">>
LowerLetters == <<"a", "b", "c", "d", "e", "f", "g", "h", "i", "j", "k", "l",
                  "m", "n", "o", "p", "q", "r", "s", "t", "u", "v", "w", "x",
                  "y", "z">>

LowerChar(c) ==
    IF \E k \in 1..Len(UpperLetters) : UpperLetters[k] = c
    THEN LowerLetters[CHOOSE k \in 1..Len(UpperLetters) : UpperLetters[k] = c]
    ELSE c

\* LOWER(s)
Lower(s) == IF s = NULL THEN NULL ELSE [k \in 1..Len(s) |-> LowerChar(s[k])]

\* the value of a run of digits
RECURSIVE DigitsValue(_)
DigitsValue(s) ==
    IF s = <<>> THEN 0
    ELSE 10 * DigitsValue(SubSeq(s, 1, Len(s) - 1)) + DigitVal(s[Len(s)])

\* the first position of c in s, Len(s) + 1 when there is none
Find(s, c) ==
    IF \E k \in 1..Len(s) : s[k] = c
    THEN CHOOSE k \in 1..Len(s) : s[k] = c /\ \A m \in 1..(k - 1) : s[m] # c
    ELSE Len(s) + 1

\* a DECIMAL value as a count of units (hundredths for DECIMAL(10,2),
\* millionths for the result of AVG), and the NULL of that type
Decimal(n) == [null |-> FALSE, units |-> n]
NullDecimal == [null |-> TRUE, units |-> 0]

\* TRY_CAST(s AS DECIMAL(10,2)) in hundredths: NULL when s is NULL, is not
\* an optionally signed decimal numeral, or needs more than eight digits
\* before the point; further decimals are rounded half away from zero
TryCastDecimal(s) ==
    IF s = NULL THEN NullDecimal
    ELSE LET t      == Strip(s)
             signed == t # <<>> /\ Head(t) \in {"+", "-"}
             neg    == t # <<>> /\ Head(t) = "-"
             body   == IF signed THEN Tail(t) ELSE t
             dot    == Find(body, ".")
             whole  == SubSeq(body, 1, dot - 1)
             frac   == SubSeq(body, dot + 1, Len(body))
             frac3  == Take(frac \o <<"0", "0", "0">>, 3)
             mag    == 100 * DigitsValue(whole)
                       + (DigitsValue(frac3) + 5) \div 10
             bad(q) == \E k \in 1..Len(q) : q[k] \notin Digits
         IN  IF whole \o frac = <<>> THEN NullDecimal
             ELSE IF bad(whole) \/ bad(frac) THEN NullDecimal
             ELSE IF Len(StripZeros(whole)) > 8 THEN NullDecimal
             ELSE Decimal(IF neg THEN 0 - mag ELSE mag)

\* TRY_CAST(REPLACE(REPLACE(LTRIM(RTRIM(c.price)), '$', ''), ',', '')
\*          AS DECIMAL(10,2))
PriceOf(price) == TryCastDecimal(Remove(Remove(Trim(price), "$"), ","))

\* CASE WHEN LOWER(LTRIM(RTRIM(c.available))) IN ('t','true','1')
\* THEN 1 ELSE 0 END
AvailableOf(available) ==
    IF available # NULL
       /\ Lower(Trim(available)) \in {<<"t">>, <<"t", "r", "u", "e">>, <<"1">>}
    THEN 1 ELSE 0

RECURSIVE SumOf(_)
SumOf(q) == IF q = <<>> THEN 0 ELSE Head(q) + SumOf(Tail(q))

\* sum / n for a sum in hundredths, cut to six decimals, in millionths
Quotient6(sum, n) == (sum \div n) * 10000 + ((sum % n) * 10000) \div n

\* AVG over DECIMAL(10,2) values: NULLs are left out; the result has six
\* decimals and is given here in millionths
AvgOf(prices) ==
    LET present == SelectSeq(prices, LAMBDA x : ~x.null)
    IN  IF present = <<>> THEN NullDecimal
        ELSE Decimal(Quotient6(SumOf([k \in 1..Len(present) |->
                                         present[k].units]),
                               Len(present)))

\* FROM calendar_debug_staging c JOIN dim_listings l
\*   ON TRY_CAST(c.listing_id AS BIGINT) = l.listing_id
Joined(tables) ==
    SelectSeq(tables.sample,
              LAMBDA c : /\ TryCastBigint(c.listing_id) # NULL
                         /\ TryCastBigint(c.listing_id) \in Keys(tables.dim))

\* the rows of one group of the GROUP BY
GroupRows(tables, listing_id, week_start) ==
    SelectSeq(Joined(tables),
              LAMBDA c : /\ TryCastBigint(c.listing_id) = listing_id
                         /\ WeekStart(c.date) = week_start)

\* the SELECT of insert_calendar: one row for each group
WeeklyRows(tables) ==
    LET rows == Joined(tables)
    IN  { LET listing_id == TryCastBigint(rows[k].listing_id)
              group      == GroupRows(tables, listing_id,
                                      WeekStart(rows[k].date))
          IN  [listing_id              |-> listing_id,
               week_start_date         |-> WeekStart(rows[k].date),
               week_end_date           |-> WeekEnd(rows[k].date),
               avg_price_per_week      |->
                   AvgOf([n \in 1..Len(group) |-> PriceOf(group[n].price)]),
               available_days_per_week |->
                   SumOf([n \in 1..Len(group) |->
                             AvailableOf(group[n].available)])]
          : k \in 1..Len(rows) }

-----------------------------------------------------------------------------
(* Specification: scripts/debug/ensure_dim_dates_for_sample.py on any     *)
(* calendar_debug_staging table                                           *)

MaxSampleRows == 3

\* the listings and the days of the sample: Friday 2024-03-01 to Monday
\* 2024-03-04
SampleListings == <<T07, T42sp>>
SampleDays == WindowFrom(Date(2024, 3, 1), 4)

\* the cells of a calendar file: one row for each listing and day
Cells ==
    [k \in 1..(Len(SampleListings) * Len(SampleDays)) |->
        [listing_id |-> SampleListings[(k - 1) \div Len(SampleDays) + 1],
         date       |-> SampleDays[((k - 1) % Len(SampleDays)) + 1]]]

\* price and available as the file writes them, with what they stand for:
\* whether there is a price, the price in hundredths and whether the day
\* is free
CellTexts ==
    << [price |-> <<"$", "1", "0", "0", ".", "0", "0">>,
        available |-> <<"t">>, priced |-> TRUE, cents |-> 10000,
        free |-> TRUE],
       [price |-> <<"$", "1", ",", "0", "0", "0", ".", "5", "0">>,
        available |-> <<"f">>, priced |-> TRUE, cents |-> 100050,
        free |-> FALSE],
       [price |-> NULL,
        available |-> <<"t">>, priced |-> FALSE, cents |-> 0,
        free |-> TRUE],
       [price |-> <<"N", "/", "A">>,
        available |-> <<"f">>, priced |-> FALSE, cents |-> 0,
        free |-> FALSE],
       [price |-> <<" ", "$", "5", "0", ".", "2", "5", " ">>,
        available |-> <<"T", "r", "u", "e">>, priced |-> TRUE,
        cents |-> 5025, free |-> TRUE] >>

SampleRow(cell, text) ==
    [listing_id |-> cell.listing_id, date |-> cell.date,
     price |-> text.price, available |-> text.available]

\* calendar_debug_staging with the cells of chosen, written as text says
SampleOf(chosen, text) ==
    LET ks == SelectSeq([k \in 1..Len(Cells) |-> k], LAMBDA k : k \in chosen)
    IN  [n \in 1..Len(ks) |-> SampleRow(Cells[ks[n]], CellTexts[text[ks[n]]])]

\* dim_listings after a load of listings 7 and 42, or of listing 7 alone
SampleDims ==
    {Upsert(<<>>, MergeSource(<<SanitizeRow(RawRow(T07, <<"b">>)),
                                SanitizeRow(RawRow(T42, <<"a">>))>>)),
     Upsert(<<>>, MergeSource(EarlierStaged))}

\* MIN and MAX of CONVERT(date, date) over the sample (line 15)
MinDate(sample) ==
    sample[CHOOSE k \in 1..Len(sample) :
              \A n \in 1..Len(sample) : DateLeq(sample[k].date, sample[n].date)
          ].date

MaxDate(sample) ==
    sample[CHOOSE k \in 1..Len(sample) :
              \A n \in 1..Len(sample) : DateLeq(sample[n].date, sample[k].date)
          ].date

SampleStill ==
    UNCHANGED <<pc, file, i, j, staging_inserted, summary, skipped,
                consecutive_errors, calls, runvars>>

\* lines 17-19: no dates in the sample, sys.exit(1)
SampleEmpty ==
    /\ hist = <<>>
    /\ db.sample = <<>>
    /\ hist' = <<[outcome |-> "aborted"]>>
    /\ pre' = db
    /\ UNCHANGED <<db, cdb>>
    /\ SampleStill

\* lines 20-85 with match_count = 0: the missing dates are added, nothing
\* goes to fact_calendar
SampleNoMatch ==
    /\ hist = <<>>
    /\ db.sample # <<>>
    /\ Joined(db) = <<>>
    /\ db' = [db EXCEPT !.dates = WithMissingDates(@, MinDate(db.sample),
                                                   MaxDate(db.sample))]
    /\ cdb' = Commit(db')
    /\ hist' = <<[outcome |-> "no_match"]>>
    /\ pre' = db
    /\ SampleStill

\* lines 20-85 with match_count > 0: the missing dates are added, then
\* insert_calendar runs and is committed
SampleInserted ==
    /\ hist = <<>>
    /\ db.sample # <<>>
    /\ Joined(db) # <<>>
    /\ db' = [db EXCEPT !.dates = WithMissingDates(@, MinDate(db.sample),
                                                   MaxDate(db.sample)),
                        !.weeks = @ \cup WeeklyRows(db)]
    /\ cdb' = Commit(db')
    /\ hist' = <<[outcome |-> "inserted"]>>
    /\ pre' = db
    /\ SampleStill

InitWeek ==
    /\ pc = "idle"
    /\ file = "A"
    /\ i = 1
    /\ j = 1
    /\ staging_inserted = 0
    /\ summary = NoCounts
    /\ \E dim \in SampleDims : \E chosen \in SUBSET (1..Len(Cells)) :
        /\ Cardinality(chosen) <= MaxSampleRows
        /\ \E text \in [chosen -> 1..Len(CellTexts)] :
            db = [EmptyTables EXCEPT !.dim = dim,
                                     !.sample = SampleOf(chosen, text)]
    /\ cdb = db
    /\ skipped = <<>>
    /\ consecutive_errors = 0
    /\ pre = db
    /\ hist = <<>>
    /\ calls = 0
    /\ entry = "sample"
    /\ rpc = "off"
    /\ queue = <<>>
    /\ conns = <<"open">>
    /\ conn = 1
    /\ rv = RvIdle
    /\ attempted = {}
    /\ finished = {}
    /\ views_created = FALSE
    /\ stats_shown = FALSE
    /\ raised = FALSE

NextWeek ==
    \/ SampleEmpty
    \/ SampleNoMatch
    \/ SampleInserted

SpecWeek == InitWeek /\ [][NextWeek]_vars

-----------------------------------------------------------------------------
(* Properties of the weekly aggregation *)

\* the Monday of the Monday-to-Sunday week of d
MondayOf(d) == AddDays(d, 0 - ((DayOfWeek(d) + 6) % 7))

\* what the text of a sample row stands for
MeaningOf(c) ==
    CHOOSE t \in Range(CellTexts) :
        t.price = c.price /\ t.available = c.available

\* the rows of the sample that belong to a listing of dim_listings
Known(tables) ==
    {k \in 1..Len(tables.sample) :
        \E n \in 1..Len(tables.dim) :
            DigitsValue(Strip(tables.sample[k].listing_id))
                = DigitsValue(tables.dim[n].listing_id)}

ListingNumber(c) == DigitsValue(Strip(c.listing_id))

\* the known rows of the listing and the Monday-to-Sunday week of row k
SameWeek(tables, k) ==
    {n \in Known(tables) :
        /\ ListingNumber(tables.sample[n]) = ListingNumber(tables.sample[k])
        /\ MondayOf(tables.sample[n].date) = MondayOf(tables.sample[k].date)}

\* the known rows the SELECT puts in one group with row k
SameBucket(tables, k) ==
    {n \in Known(tables) :
        /\ ListingNumber(tables.sample[n]) = ListingNumber(tables.sample[k])
        /\ WeekStart(tables.sample[n].date) = WeekStart(tables.sample[k].date)}

RECURSIVE CentsOf(_, _)
CentsOf(tables, rows) ==
    IF rows = {} THEN 0
    ELSE LET k == CHOOSE k \in rows : TRUE
         IN  MeaningOf(tables.sample[k]).cents + CentsOf(tables, rows \ {k})

Priced(tables, rows) == {k \in rows : MeaningOf(tables.sample[k]).priced}

Free(tables, rows) == {k \in rows : MeaningOf(tables.sample[k]).free}

\* avg is the mean of the prices of rows, to the sixth decimal
IsMeanOf(avg, tables, rows) ==
    LET priced == Priced(tables, rows)
        n      == Cardinality(priced)
        sum    == CentsOf(tables, priced)
        low    == (sum \div n) * 10000 + ((sum % n) * 10000) \div n
    IN  IF n = 0 THEN avg.null
        ELSE ~avg.null /\ avg.units \in {low, low + 1}

\* the weekly row of the listing of sample row k that starts on week_start
WeeklyRowsAt(tables, k, week_start) ==
    {w \in tables.weeks :
        /\ DigitsValue(w.listing_id) = ListingNumber(tables.sample[k])
        /\ w.week_start_date = week_start}

\* C18 (as claimed): after insert_calendar, for every row of a known
\* listing there is one weekly row for the listing and the Monday of the
\* row's week; its average price is the mean of the prices present among
\* the listing's rows of that Monday-to-Sunday week (rows without a price
\* are left out, not counted as zero) and its available-day count is the
\* number of those rows that are marked available.
C18_WeeklyAggregates ==
    Returned("inserted") =>
        \A k \in Known(pre) :
            LET week == SameWeek(pre, k)
                rows == WeeklyRowsAt(db, k, MondayOf(pre.sample[k].date))
            IN  /\ Cardinality(rows) = 1
                /\ \A w \in rows :
                    /\ IsMeanOf(w.avg_price_per_week, pre, week)
                    /\ w.available_days_per_week
                           = Cardinality(Free(pre, week))

\* the same over the groups the SELECT forms: every group has one weekly
\* row, with the mean of the prices present in the group and the number
\* of its rows marked available
C18_GroupAggregates ==
    Returned("inserted") =>
        \A k \in Known(pre) :
            LET group == SameBucket(pre, k)
                rows  == WeeklyRowsAt(db, k, WeekStart(pre.sample[k].date))
            IN  /\ Cardinality(rows) = 1
                /\ \A w \in rows :
                    /\ IsMeanOf(w.avg_price_per_week, pre, group)
                    /\ w.available_days_per_week
                           = Cardinality(Free(pre, group))

\* C19 (as claimed): after insert_calendar every row of a known listing,
\* with date d, has a weekly row whose week_start_date is a Monday with
\* week_start_date <= d <= week_start_date + 6, whatever the weekday of d;
\* and the listing has one weekly row for each Monday-to-Sunday week in
\* which it has rows.
C19_BucketIsMondayWeek ==
    Returned("inserted") =>
        \A k \in Known(pre) :
            LET d == pre.sample[k].date
            IN  /\ \E w \in db.weeks :
                    /\ DigitsValue(w.listing_id) = ListingNumber(pre.sample[k])
                    /\ w.week_start_date = WeekStart(d)
                    /\ DayOfWeek(w.week_start_date) = 1
                    /\ DateLeq(w.week_start_date, d)
                    /\ DateLeq(d, AddDays(w.week_start_date, 6))
                /\ SameBucket(pre, k) = SameWeek(pre, k)

\* what holds of the buckets: week_start_date is a Monday, week_end_date
\* the Sunday six days later, and d lies from the day before
\* week_start_date to five days after it
C19_BucketIsSundayWeek ==
    Returned("inserted") =>
        \A k \in Known(pre) :
            LET d == pre.sample[k].date
            IN  \E w \in db.weeks :
                    /\ DigitsValue(w.listing_id) = ListingNumber(pre.sample[k])
                    /\ w.week_start_date = WeekStart(d)
                    /\ DayOfWeek(w.week_start_date) = 1
                    /\ w.week_end_date = AddDays(w.week_start_date, 6)
                    /\ DateLeq(PrevDay(w.week_start_date), d)
                    /\ DateLeq(d, AddDays(w.week_start_date, 5))

-----------------------------------------------------------------------------
(* The cap of _load_reviews_data, lines 425-431 *)

\* the row count above which a reviews file is cut down
RowCap == 200000
\* random_state of df.sample
SampleSeed == 42

\* int(original_rows * 0.8): the double nearest to 0.8 is 0.8 + e with
\* 0 < e < 2^-54, so for every row count a file can have the product
\* rounds to a double that is 4n/5 when 5 divides n and lies strictly
\* between floor(4n/5) and the next integer otherwise; int() cuts it to
\* floor(8n / 10)
CappedRows(original_rows) == (original_rows * 8) \div 10

\* df as read: every row of the file, in the order of the file
WholeFrame(original_rows) ==
    [rows |-> original_rows, of |-> original_rows, sampled |-> FALSE,
     replace |-> FALSE, random_state |-> <<>>]

\* df.sample(n=capped_rows, random_state=42): capped_rows rows of df drawn
\* without replacement (replace defaults to False) by the generator seeded
\* with random_state
SampledFrame(original_rows, capped_rows, seed) ==
    [rows |-> capped_rows, of |-> original_rows, sampled |-> TRUE,
     replace |-> FALSE, random_state |-> <<seed>>]

\* variant: a file of exactly RowCap rows is cut down too
Capped_FromRowCap(original_rows) ==
    IF original_rows >= RowCap
    THEN SampledFrame(original_rows, CappedRows(original_rows), SampleSeed)
    ELSE WholeFrame(original_rows)

\* df after lines 427-431
Capped(original_rows) ==
    IF original_rows > RowCap
    THEN SampledFrame(original_rows, CappedRows(original_rows), SampleSeed)
    ELSE WholeFrame(original_rows)

-----------------------------------------------------------------------------
(* Specification: reviews files of any size, each read up to MaxReads     *)
(* times                                                                  *)

MaxReads == 2
\* row counts from RowCap - NearCap to RowCap + NearCap, and 0..NearCap
NearCap == 30

RowCounts == (0..NearCap) \cup ((RowCap - NearCap)..(RowCap + NearCap))

CapStill ==
    UNCHANGED <<pc, file, i, j, staging_inserted, summary, db, cdb, skipped,
                consecutive_errors, pre, entry, rpc, queue, conns, conn, rv,
                attempted, finished, views_created, stats_shown, raised>>

\* lines 425-431: the file at the head of the queue is read and cut down
ReviewsRead ==
    /\ calls < MaxReads
    /\ hist' = Append(hist, [original_rows |-> Head(queue).rows,
                             df |-> Capped(Head(queue).rows),
                             outcome |-> "read"])
    /\ calls' = calls + 1
    /\ CapStill

\* read_csv raises: the handler of line 476 logs it, nothing is loaded
ReviewsUnreadable ==
    /\ calls < MaxReads
    /\ hist' = Append(hist, [original_rows |-> 0, df |-> WholeFrame(0),
                             outcome |-> "unreadable"])
    /\ calls' = calls + 1
    /\ CapStill

InitCap ==
    /\ pc = "idle"
    /\ file = "A"
    /\ i = 1
    /\ j = 1
    /\ staging_inserted = 0
    /\ summary = NoCounts
    /\ db = EmptyTables
    /\ cdb = db
    /\ skipped = <<>>
    /\ consecutive_errors = 0
    /\ pre = db
    /\ hist = <<>>
    /\ calls = 0
    /\ entry = "reviews"
    /\ rpc = "off"
    /\ \E n \in RowCounts : queue = <<[file |-> "rev1", rows |-> n]>>
    /\ conns = <<"open">>
    /\ conn = 1
    /\ rv = RvIdle
    /\ attempted = {}
    /\ finished = {}
    /\ views_created = FALSE
    /\ stats_shown = FALSE
    /\ raised = FALSE

NextCap ==
    \/ ReviewsRead
    \/ ReviewsUnreadable

SpecCap == InitCap /\ [][NextCap]_vars

-----------------------------------------------------------------------------
(* Properties of the cap *)

Reads == {k \in 1..Len(hist) : hist[k].outcome = "read"}

-----------------------------------------------------------------------------
(* The sanitizers of _load_listings_data, lines 147-174 *)

\* s.endswith(suffix)
EndsWith(s, suffix) ==
    /\ Len(s) >= Len(suffix)
    /\ SubSeq(s, Len(s) - Len(suffix) + 1, Len(s)) = suffix

\* sanitize_numstr(val), lines 153-160
sanitize_numstr(val) ==
    IF val = NULL THEN NULL
    ELSE LET s1 == Remove(Strip(val), ",")
             s2 == IF EndsWith(s1, <<".", "0">>)
                   THEN SubSeq(s1, 1, Len(s1) - 2) ELSE s1
         IN  IF s2 # <<>> THEN s2 ELSE NULL

TrueWords == {<<"t", "r", "u", "e">>, <<"1">>, <<"t">>, <<"y">>,
              <<"y", "e", "s">>}
FalseWords == {<<"f", "a", "l", "s", "e">>, <<"0">>, <<"f">>, <<"n">>,
               <<"n", "o">>}

TextTrue == <<"T", "r", "u", "e">>
TextFalse == <<"F", "a", "l", "s", "e">>

\* variant: the words are compared as written
norm_bool_AsWritten(v) ==
    IF v = NULL THEN NULL
    ELSE LET sv == Strip(v)
         IN  IF sv \in TrueWords THEN TextTrue
             ELSE IF sv \in FalseWords THEN TextFalse
             ELSE sv

\* norm_bool(v), lines 168-174
norm_bool(v) ==
    IF v = NULL THEN NULL
    ELSE LET sv == Strip(v)
         IN  IF Lower(sv) \in TrueWords THEN TextTrue
             ELSE IF Lower(sv) \in FalseWords THEN TextFalse
             ELSE sv

-----------------------------------------------------------------------------
(* Specification: the sanitizers on any value of a cell *)

MaxTextLen == 4

TextAlphabet == {" ", ",", ".", "0", "1", "a"}

RECURSIVE TextsOfLen(_)
TextsOfLen(n) ==
    IF n = 0 THEN {<<>>}
    ELSE {<<c>> \o t : c \in TextAlphabet, t \in TextsOfLen(n - 1)}

\* cells of the is_local_host column as files write them
BoolTexts ==
    {<<"t", "r", "u", "e">>, <<"T", "R", "U", "E">>, TextTrue,
     <<" ", "t", " ">>, <<"Y">>, <<"y", "e", "s">>, <<"Y", "e", "s">>,
     <<"f", "a", "l", "s", "e">>, TextFalse, <<"F">>, <<"n">>, <<"N", "o">>,
     <<"m", "a", "y", "b", "e">>, <<" ", "x", " ">>, <<"t", "r", "u">>}

\* str(val) of the values a cell can hold, and the missing value
CellValues ==
    {NULL} \cup BoolTexts \cup UNION {TextsOfLen(n) : n \in 0..MaxTextLen}

\* the maximum lengths of the fields, scaled to the length of the texts
FieldMaxLens == 1..(MaxTextLen - 1)

TextStill ==
    UNCHANGED <<pc, file, i, j, staging_inserted, summary, db, cdb, skipped,
                consecutive_errors, pre, entry, rpc, queue, conns, conn, rv,
                attempted, finished, views_created, stats_shown, raised>>

\* one cell goes through sanitize_numstr (lines 153-160)
SanitizeNumstr ==
    /\ calls = 0
    /\ hist' = <<[fn |-> "sanitize_numstr", val |-> Head(queue), maxlen |-> 0,
                  out |-> sanitize_numstr(Head(queue))]>>
    /\ calls' = 1
    /\ TextStill

\* one cell goes through sanitize_str (lines 147-151)
SanitizeStr ==
    /\ calls = 0
    /\ \E maxlen \in FieldMaxLens :
        hist' = <<[fn |-> "sanitize_str", val |-> Head(queue),
                   maxlen |-> maxlen,
                   out |-> sanitize_str(Head(queue), maxlen)]>>
    /\ calls' = 1
    /\ TextStill

\* one cell goes through norm_bool (lines 168-174)
NormBool ==
    /\ calls = 0
    /\ hist' = <<[fn |-> "norm_bool", val |-> Head(queue), maxlen |-> 0,
                  out |-> norm_bool(Head(queue))]>>
    /\ calls' = 1
    /\ TextStill

InitText ==
    /\ pc = "idle"
    /\ file = "A"
    /\ i = 1
    /\ j = 1
    /\ staging_inserted = 0
    /\ summary = NoCounts
    /\ db = EmptyTables
    /\ cdb = db
    /\ skipped = <<>>
    /\ consecutive_errors = 0
    /\ pre = db
    /\ hist = <<>>
    /\ calls = 0
    /\ entry = "sanitize"
    /\ rpc = "off"
    /\ \E val \in CellValues : queue = <<val>>
    /\ conns = <<"open">>
    /\ conn = 1
    /\ rv = RvIdle
    /\ attempted = {}
    /\ finished = {}
    /\ views_created = FALSE
    /\ stats_shown = FALSE
    /\ raised = FALSE

NextText ==
    \/ SanitizeNumstr
    \/ SanitizeStr
    \/ NormBool

SpecText == InitText /\ [][NextText]_vars

-----------------------------------------------------------------------------
(* Properties of the sanitizers *)

Applied(fn) == hist # <<>> /\ Last.fn = fn

Blank(val) == val = NULL \/ \A k \in 1..Len(val) : val[k] = " "

\* C21 (as claimed): sanitize_numstr returns null or a non-empty text
\* without ',' that does not end in ".0"; a missing value and a value
\* that is empty after the cleanup give null.
C21_NumstrClean ==
    Applied("sanitize_numstr") =>
        /\ Last.out # NULL =>
            /\ Last.out # <<>>
            /\ \A k \in 1..Len(Last.out) : Last.out[k] # ","
            /\ ~EndsWith(Last.out, <<".", "0">>)
        /\ Blank(Last.val) => Last.out = NULL

\* the same without the ".0" part: null or non-empty, and no ','
C21_NumstrNoSeparator ==
    Applied("sanitize_numstr") =>
        /\ Last.out # NULL =>
            /\ Last.out # <<>>
            /\ \A k \in 1..Len(Last.out) : Last.out[k] # ","
        /\ Blank(Last.val) => Last.out = NULL

\* out is the part of val that starts at its first non-blank character
StartsAtText(val, out) ==
    \E p \in 1..Len(val) :
        /\ \A k \in 1..(p - 1) : val[k] = " "
        /\ val[p] # " "
        /\ p + Len(out) - 1 <= Len(val)
        /\ SubSeq(val, p, p + Len(out) - 1) = out

\* nothing but blanks follows the first n characters of the text of val
EndsWithin(val, n) ==
    \E p \in 1..Len(val) :
        /\ \A k \in 1..(p - 1) : val[k] = " "
        /\ val[p] # " "
        /\ \A k \in (p + n)..Len(val) : val[k] = " "

\* C22 (as claimed): sanitize_str returns null exactly for a missing or
\* blank value, and otherwise a text of 1 to maxlen characters that
\* neither starts nor ends with a blank.
C22_StrTrimmed ==
    Applied("sanitize_str") =>
        /\ Last.out = NULL <=> Blank(Last.val)
        /\ Last.out # NULL =>
            /\ Len(Last.out) \in 1..Last.maxlen
            /\ Last.out[1] # " "
            /\ Last.out[Len(Last.out)] # " "

\* C22 (amended): sanitize_str returns null exactly for a missing or blank
\* value, and otherwise the first characters of the trimmed value, 1 to
\* maxlen of them: it never starts with a blank, it holds the whole
\* trimmed value unless that is longer than maxlen, and it ends with a
\* blank only when it was cut at maxlen.
C22_StrTrimmedThenCut ==
    Applied("sanitize_str") =>
        /\ Last.out = NULL <=> Blank(Last.val)
        /\ Last.out # NULL =>
            /\ Len(Last.out) \in 1..Last.maxlen
            /\ StartsAtText(Last.val, Last.out)
            /\ Len(Last.out) < Last.maxlen => EndsWithin(Last.val, Len(Last.out))
            /\ Last.out[Len(Last.out)] = " " =>
                /\ Len(Last.out) = Last.maxlen
                /\ ~EndsWithin(Last.val, Len(Last.out))

\* a padded value longer than its field was cut right after a blank
C22_Witness ==
    /\ Applied("sanitize_str")
    /\ Last.val = <<" ", "a", " ", "a">>
    /\ Last.maxlen = 2
    /\ Last.out = <<"a", " ">>

Recognised(val) ==
    val # NULL /\ Lower(Strip(val)) \in TrueWords \cup FalseWords

\* C23 (as claimed): norm_bool maps true, 1, t, y, yes in any case to
\* "True" and false, 0, f, n, no in any case to "False", a missing value
\* to null, and returns every other value unchanged; norm_bool of its
\* result is that result.
C23_BoolUnchangedOtherwise ==
    Applied("norm_bool") =>
        /\ Last.val = NULL => Last.out = NULL
        /\ (Last.val # NULL /\ Lower(Last.val) \in TrueWords)
               => Last.out = TextTrue
        /\ (Last.val # NULL /\ Lower(Last.val) \in FalseWords)
               => Last.out = TextFalse
        /\ (Last.val # NULL /\ Lower(Last.val) \notin TrueWords \cup FalseWords)
               => Last.out = Last.val
        /\ norm_bool(Last.out) = Last.out

\* C23 (amended): norm_bool first trims the value; it maps true, 1, t, y,
\* yes in any case to "True" and false, 0, f, n, no in any case to
\* "False", a missing value to null, and returns every other value
\* trimmed and otherwise unchanged; norm_bool of its result is that
\* result.
C23_BoolTrimmedOtherwise ==
    Applied("norm_bool") =>
        /\ Last.val = NULL <=> Last.out = NULL
        /\ (Last.val # NULL /\ Lower(Strip(Last.val)) \in TrueWords)
               => Last.out = TextTrue
        /\ (Last.val # NULL /\ Lower(Strip(Last.val)) \in FalseWords)
               => Last.out = TextFalse
        /\ (Last.val # NULL /\ ~Recognised(Last.val))
               => /\ Last.out = Strip(Last.val)
                  /\ Blank(Last.val) \/ StartsAtText(Last.val, Last.out)
        /\ norm_bool(Last.out) = Last.out

\* a padded value that is no boolean word came back trimmed, and a word
\* in capitals is recognised
C23_Witness ==
    /\ Applied("norm_bool")
    /\ Last.val = <<" ", "x", " ">>
    /\ Last.out = <<"x">>
    /\ norm_bool(<<"T", "R", "U", "E">>) = TextTrue

-----------------------------------------------------------------------------
(* modules/data_cleaner.py: parse_host_location and                       *)
(* infer_geography_from_filename                                          *)

\* s.split(c) for a single character c
RECURSIVE Split(_, _)
Split(s, c) ==
    IF \A k \in 1..Len(s) : s[k] # c THEN <<s>>
    ELSE LET p == Find(s, c)
         IN  <<SubSeq(s, 1, p - 1)>> \o Split(SubSeq(s, p + 1, Len(s)), c)

\* sep.join(parts)
RECURSIVE Join(_, _)
Join(parts, sep) ==
    IF parts = <<>> THEN <<>>
    ELSE IF Len(parts) = 1 THEN parts[1]
    ELSE parts[1] \o sep \o Join(Tail(parts), sep)

\* s.replace(old, '') for a non-empty old
RECURSIVE Without(_, _)
Without(s, old) ==
    IF Len(s) < Len(old) THEN s
    ELSE IF SubSeq(s, 1, Len(old)) = old
         THEN Without(SubSeq(s, Len(old) + 1, Len(s)), old)
    ELSE <<Head(s)>> \o Without(Tail(s), old)

\* os.path.basename(filename)
Basename(filename) ==
    LET parts == Split(filename, "/") IN parts[Len(parts)]

Unknown == <<"U", "n", "k", "n", "o", "w", "n">>

Place(city, country) == [city |-> city, country |-> country]

\* [part.strip() for part in parts if part.strip()]
StrippedParts(parts) ==
    LET kept == SelectSeq(parts, LAMBDA part : Strip(part) # <<>>)
    IN  [k \in 1..Len(kept) |-> Strip(kept[k])]

\* variant: the city is the first part alone
parse_host_location_FirstPart(location_string) ==
    IF location_string = NULL \/ location_string = <<>>
    THEN Place(Unknown, Unknown)
    ELSE LET parts == StrippedParts(Split(location_string, ","))
         IN  IF Len(parts) >= 2
             THEN Place(parts[1], parts[Len(parts)])
             ELSE IF Len(parts) = 1 THEN Place(Unknown, parts[1])
             ELSE Place(Unknown, Unknown)

\* parse_host_location(location_string), lines 45-62
parse_host_location(location_string) ==
    IF location_string = NULL \/ location_string = <<>>
    THEN Place(Unknown, Unknown)
    ELSE LET parts == StrippedParts(Split(location_string, ","))
         IN  IF Len(parts) >= 2
             THEN Place(Join(SubSeq(parts, 1, Len(parts) - 1), <<",", " ">>),
                        parts[Len(parts)])
             ELSE IF Len(parts) = 1 THEN Place(Unknown, parts[1])
             ELSE Place(Unknown, Unknown)

\* c.replace('_', ' ')
Spaced(s) == [k \in 1..Len(s) |-> IF s[k] = "_" THEN " " ELSE s[k]]

CsvGz == <<".", "c", "s", "v", ".", "g", "z">>

\* infer_geography_from_filename(filename), lines 21-43
infer_geography_from_filename(filename) ==
    LET name_without_ext == Without(Basename(filename), CsvGz)
        parts            == Split(name_without_ext, "_")
    IN  IF Len(parts) >= 4
        THEN Place(Spaced(parts[2]), Spaced(parts[1]))
        ELSE Place(Unknown, Unknown)

-----------------------------------------------------------------------------
(* Specification: the two parsers on any text *)

MaxPlaceLen == 5

PlaceAlphabet == {"a", "b", ",", " ", "_"}

RECURSIVE PlacesOfLen(_)
PlacesOfLen(n) ==
    IF n = 0 THEN {<<>>}
    ELSE {<<c>> \o t : c \in PlaceAlphabet, t \in PlacesOfLen(n - 1)}

BuenosAiresArgentina ==
    <<"B", "u", "e", "n", "o", "s", " ", "A", "i", "r", "e", "s", ",",
      " ", "A", "r", "g", "e", "n", "t", "i", "n", "a">>

Argentina ==
    <<"A", "r", "g", "e", "n", "t", "i", "n", "a">>

BuenosAires ==
    <<"B", "u", "e", "n", "o", "s", " ", "A", "i", "r", "e", "s">>

Hawaii ==
    <<"H", "a", "w", "a", "i", "i">>

UnitedStates ==
    <<"U", "n", "i", "t", "e", "d", " ", "S", "t", "a", "t", "e", "s">>

HawaiiFile ==
    <<"U", "n", "i", "t", "e", "d", "_", "S", "t", "a", "t", "e", "s",
      "_", "H", "a", "w", "a", "i", "i", "_", "l", "i", "s", "t", "i",
      "n", "g", "s", "_", "1", "3", "-", "J", "u", "n", "e", "-", "2",
      "0", "2", "5", ".", "c", "s", "v", ".", "g", "z">>

BuenosAiresFile ==
    <<"A", "r", "g", "e", "n", "t", "i", "n", "a", "_", "B", "u", "e",
      "n", "o", "s", " ", "A", "i", "r", "e", "s", "_", "l", "i", "s",
      "t", "i", "n", "g", "s", "_", "2", "9", "-", "J", "a", "n", "u",
      "a", "r", "y", "-", "2", "0", "2", "5", ".", "c", "s", "v", ".",
      "g", "z">>

DatedFile ==
    <<"d", "a", "t", "a", "/", "a", "_", "b", "_", "l", "i", "s", "t",
      "i", "n", "g", "s", "_", "1", ".", "c", "s", "v", ".", "g", "z">>

ShortFile ==
    <<"a", "_", "l", "i", "s", "t", "i", "n", "g", "s", "_", "1", ".",
      "c", "s", "v", ".", "g", "z">>


\* host_location cells and file names: the written examples, and every
\* text of up to MaxPlaceLen characters of the alphabet
PlaceTexts ==
    {NULL, BuenosAiresArgentina, Argentina, HawaiiFile, BuenosAiresFile,
     DatedFile, ShortFile}
    \cup UNION {PlacesOfLen(n) : n \in 0..MaxPlaceLen}

\* one host_location goes through parse_host_location
ParseHostLocation ==
    /\ calls = 0
    /\ hist' = <<[fn |-> "parse_host_location", val |-> Head(queue),
                  out |-> parse_host_location(Head(queue))]>>
    /\ calls' = 1
    /\ TextStill

\* one file name goes through infer_geography_from_filename
InferGeography ==
    /\ calls = 0
    /\ Head(queue) # NULL
    /\ hist' = <<[fn |-> "infer_geography_from_filename", val |-> Head(queue),
                  out |-> infer_geography_from_filename(Head(queue))]>>
    /\ calls' = 1
    /\ TextStill

InitClean ==
    /\ pc = "idle"
    /\ file = "A"
    /\ i = 1
    /\ j = 1
    /\ staging_inserted = 0
    /\ summary = NoCounts
    /\ db = EmptyTables
    /\ cdb = db
    /\ skipped = <<>>
    /\ consecutive_errors = 0
    /\ pre = db
    /\ hist = <<>>
    /\ calls = 0
    /\ entry = "clean"
    /\ rpc = "off"
    /\ \E val \in PlaceTexts : queue = <<val>>
    /\ conns = <<"open">>
    /\ conn = 1
    /\ rv = RvIdle
    /\ attempted = {}
    /\ finished = {}
    /\ views_created = FALSE
    /\ stats_shown = FALSE
    /\ raised = FALSE

NextClean ==
    \/ ParseHostLocation
    \/ InferGeography

SpecClean == InitClean /\ [][NextClean]_vars

-----------------------------------------------------------------------------
(* Properties of the parsers *)

\* the positions that bound the comma-separated parts of val
PartBounds(val) ==
    SelectSeq([k \in 1..(Len(val) + 2) |-> k - 1],
              LAMBDA p : p = 0 \/ p = Len(val) + 1 \/ val[p] = ",")

\* the non-empty comma-separated parts of val, trimmed
NonEmptyParts(val) ==
    LET at  == PartBounds(val)
        all == [k \in 1..(Len(at) - 1) |->
                   Strip(SubSeq(val, at[k] + 1, at[k + 1] - 1))]
    IN  SelectSeq(all, LAMBDA part : part # <<>>)

\* city is parts[1], ", ", parts[2], ... up to parts[n]
RECURSIVE IsJoined(_, _, _)
IsJoined(city, parts, n) ==
    IF n = 1 THEN city = parts[1]
    ELSE /\ Len(city) >= Len(parts[n]) + 2
         /\ EndsWith(city, <<",", " ">> \o parts[n])
         /\ IsJoined(SubSeq(city, 1, Len(city) - Len(parts[n]) - 2), parts,
                     n - 1)

\* C24: parse_host_location gives, for two or more non-empty parts, the
\* last part as country and the other parts joined by ", " as city
\* ("Buenos Aires, Argentina": city "Buenos Aires", country "Argentina");
\* for one non-empty part city "Unknown" and that part as country; for a
\* missing, empty or separator-only location "Unknown" twice.
C24_HostLocationParsed ==
    Applied("parse_host_location") =>
        /\ Last.val = NULL => Last.out = Place(Unknown, Unknown)
        /\ Last.val # NULL =>
            LET parts == NonEmptyParts(Last.val)
                n     == Len(parts)
            IN  /\ n = 0 => Last.out = Place(Unknown, Unknown)
                /\ n = 1 => Last.out = Place(Unknown, parts[1])
                /\ n >= 2 => /\ Last.out.country = parts[n]
                             /\ IsJoined(Last.out.city, parts, n - 1)
        /\ Last.val = BuenosAiresArgentina
               => Last.out = Place(BuenosAires, Argentina)
        /\ Last.val = Argentina => Last.out = Place(Unknown, Argentina)

\* a location of three parts was parsed
C24_Witness ==
    /\ Applied("parse_host_location")
    /\ Last.val = <<"a", ",", "b", ",", "a">>
    /\ Last.out = Place(<<"a", ",", " ", "b">>, <<"a">>)

\* listings file names with the city and country they are named after
NamedFiles ==
    {[name |-> HawaiiFile, city |-> Hawaii, country |-> UnitedStates],
     [name |-> BuenosAiresFile, city |-> BuenosAires, country |-> Argentina],
     [name |-> DatedFile, city |-> <<"b">>, country |-> <<"a">>]}

Underscores(val) == Cardinality({k \in 1..Len(val) : val[k] = "_"})

\* C25 (as claimed): infer_geography_from_filename gives the city and the
\* full country of a file named Country_City_listings_<date>.csv.gz, also
\* when the country is written with an underscore (United_States_Hawaii:
\* city "Hawaii", country "United States"), and ("Unknown", "Unknown") for
\* a name of fewer than four underscore-separated parts.
C25_GeographyFromFilename ==
    Applied("infer_geography_from_filename") =>
        /\ \A f \in NamedFiles :
               Last.val = f.name => Last.out = Place(f.city, f.country)
        /\ Underscores(Last.val) < 3 => Last.out = Place(Unknown, Unknown)

\* what holds: the country is the text before the first underscore and
\* the city the text between the first two, whenever the name has four
\* parts or more; fewer parts give ("Unknown", "Unknown")
C25_FirstTwoParts ==
    Applied("infer_geography_from_filename") =>
        /\ Underscores(Last.val) < 3 => Last.out = Place(Unknown, Unknown)
        /\ Underscores(Last.val) >= 3 =>
            /\ \A k \in 1..Len(Last.out.country) : Last.out.country[k] # "_"
            /\ \A k \in 1..Len(Last.out.city) : Last.out.city[k] # "_"
        /\ Last.val = HawaiiFile
               => Last.out = Place(<<"S", "t", "a", "t", "e", "s">>,
                                   <<"U", "n", "i", "t", "e", "d">>)
        /\ Last.val = BuenosAiresFile
               => Last.out = Place(BuenosAires, Argentina)

-----------------------------------------------------------------------------
(* Properties of the connection and of the reviews load *)

OpenConns == {k \in 1..Len(conns) : conns[k] = "open"}

\* C26 (as claimed): every attempt on a reviews file runs on an open
\* connection, also for the files that follow a reconnection; at most one
\* connection is open at any time; and when the run has closed its
\* connection no connection is open.
C26_OneConnectionReused ==
    /\ rv.pc = "attempt" => conns[rv.conn] = "open"
    /\ Cardinality(OpenConns) <= 1
    /\ rpc = "done" => OpenConns = {}

\* what holds: at most one connection is open at any time
C26_AtMostOneOpen == Cardinality(OpenConns) <= 1

\* C27 (as claimed): no call of _load_reviews_data ends with an exception
\* that reaches its caller; every call that ends has loaded the file or
\* has logged the failure and returned.
C27_ReviewsNeverRaises ==
    /\ rv.outcome # "raised"
    /\ ReviewsCallEnded => rv.outcome \in {"loaded", "failed"}

\* what holds: a call whose attempts all fail with errors that are no
\* connection errors returns; only a call that met a lost or closed
\* connection raises
C27_RaisesOnlyOnDeadConnection ==
    (ReviewsCallEnded /\ rv.outcome = "raised") => conns[rv.conn] # "open"

\* C28: a reviews file is committed to fact_reviews at most once; an
\* attempt starts on the committed table, with nothing of a failed attempt
\* in it; and a file whose call ended without a successful attempt is not
\* in fact_reviews.
C28_ReviewsCommittedOnce ==
    /\ LoadedOnce(cdb.rev)
    /\ rv.pc = "attempt" => db.rev = cdb.rev
    /\ (ReviewsCallEnded /\ rv.outcome \in {"failed", "raised"})
           => rv.file \notin Range(cdb.rev)

\* the third attempt on a file succeeded after two that failed
C28_Witness ==
    /\ ReviewsCallEnded
    /\ rv.outcome = "loaded"
    /\ rv.runs = MaxRetries
    /\ rv.file \in Range(cdb.rev)

-----------------------------------------------------------------------------
(* Properties of the staging loop and of the promote counts *)

Occurrences(t, row) == Cardinality({k \in 1..Len(t) : t[k] = row})

\* C29 (as claimed): when the staging loop of a file has ended, no row of
\* the file is in the staging table more often than in the file, and the
\* logged count staging_inserted is the number of rows in staging, also
\* after a batch that failed part-way and was inserted again row by row.
C29_StagedOnceAndCounted ==
    (pc = "merge" /\ pre = db) =>
        /\ \A k \in 1..Len(Rows) :
               Occurrences(db.staging, Rows[k]) <= Occurrences(Rows, Rows[k])
        /\ staging_inserted = Len(db.staging)

\* the staged rows with a castable id, by whether dim held the id
StagedCastable(staging, dim, present) ==
    {k \in 1..Len(staging) :
        /\ TryCastBigint(staging[k].listing_id) # NULL
        /\ (TryCastBigint(staging[k].listing_id) \in Keys(dim)) = present}

\* C30: after a successful promote the reported inserted count is the
\* number of staged rows with a castable id that dim_listings did not
\* hold, the updated count the number it held, their sum the number of
\* staged rows with a castable id, and dim_listings has grown by the
\* inserted count.
C30_PromoteCounts ==
    Returned("loaded") =>
        LET new == StagedCastable(pre.staging, Last.dim0, FALSE)
            old == StagedCastable(pre.staging, Last.dim0, TRUE)
        IN  /\ Last.inserted = Cardinality(new)
            /\ Last.updated = Cardinality(old)
            /\ Last.inserted + Last.updated
                   = Len(SelectSeq(pre.staging, IsCastable))
            /\ Len(Last.dim1) = Len(Last.dim0) + Last.inserted

\* a promote that inserted one listing and updated another
C30_Witness ==
    /\ Returned("loaded")
    /\ Last.inserted >= 1
    /\ Last.updated >= 1

====
